---- MODULE Spec2Model ----
(***************************************************************************)
(* Signal backend: the decision-normalization and policy-threshold engine  *)
(* (utils/openaiClient.ts, utils/opikLogger.ts, api/opik-log.ts) and the   *)
(* /api/analyze request handler around it, and the relay endpoints         *)
(* (api/opik-log, api/feedback, api/recall, api/grade-recall) with their   *)
(* token check (utils/relayAuth.ts) and privacy scan (utils/privacy.ts).   *)
(*                                                                         *)
(* Numbers.  A JavaScript number is a record [k, v]: k is "fin", "nan",    *)
(* "pinf" or "ninf", and for a finite number v is its value in hundredths  *)
(* (0.75 is 75, a concept count of 6 is 600).  All thresholds of the       *)
(* source are multiples of 0.05, so hundredths represent them exactly.     *)
(***************************************************************************)
EXTENDS Integers, Sequences, FiniteSets, TLC

VARIABLES pc, req, env, data, analysis, recallQuestions, retrievalUsed,
          relatedItems, telemetry, res, calls, responses, unhandled, fn, relay,
          client

vars == <<pc, req, env, data, analysis, recallQuestions, retrievalUsed,
          relatedItems, telemetry, res, calls, responses, unhandled, fn, relay, client>>

handlerVars == <<pc, req, env, data, analysis, recallQuestions, retrievalUsed,
                 relatedItems, telemetry, res, calls, responses, unhandled>>

\* One unit of the source's numbers, in hundredths.
Scale == 100

Fin(n) == [k |-> "fin", v |-> n]

NaN == [k |-> "nan", v |-> 0]

PInf == [k |-> "pinf", v |-> 0]

NInf == [k |-> "ninf", v |-> 0]

\* Number.isFinite
IsFinite(x) == x.k = "fin"

\* The JavaScript operator < on numbers: false when either side is NaN.
JsLt(a, b) ==
  CASE a.k = "nan" \/ b.k = "nan" -> FALSE
    [] a.k = "ninf" -> b.k # "ninf"
    [] a.k = "pinf" -> FALSE
    [] b.k = "ninf" -> FALSE
    [] b.k = "pinf" -> TRUE
    [] OTHER -> a.v < b.v

\* The JavaScript operator >= on numbers: false when either side is NaN.
JsGe(a, b) ==
  IF a.k = "nan" \/ b.k = "nan" THEN FALSE ELSE ~JsLt(a, b)

\* Math.min: NaN if either argument is NaN.
MathMin(a, b) ==
  IF a.k = "nan" \/ b.k = "nan" THEN NaN
  ELSE IF JsLt(a, b) THEN a ELSE b

\* Math.max: NaN if either argument is NaN.
MathMax(a, b) ==
  IF a.k = "nan" \/ b.k = "nan" THEN NaN
  ELSE IF JsLt(a, b) THEN b ELSE a

\* Math.floor: the largest integer not above x; NaN and the infinities are kept.
MathFloor(x) ==
  IF IsFinite(x) THEN Fin((x.v \div Scale) * Scale) ELSE x

(***************************************************************************)
(* Policy tables                                                           *)
(***************************************************************************)
InterventionPolicies == {"focused", "aggressive"}

\* Trigger thresholds for the decision engine that are stricter than the
\* logger's table.
TRIGGER_THRESHOLDS_Stricter(policy) ==
  IF policy = "focused" THEN Fin(80) ELSE Fin(65)

\* openaiClient.ts: the decision engine's trigger thresholds.
TRIGGER_THRESHOLDS(policy) ==
  IF policy = "focused" THEN Fin(75) ELSE Fin(60)

\* opikLogger.ts: the logger's own copy of the trigger thresholds.
LOGGER_TRIGGER_THRESHOLDS(policy) ==
  IF policy = "focused" THEN Fin(75) ELSE Fin(60)

\* A table whose focused low band lies above the trigger.
POLICY_THRESHOLDS_LowAboveTrigger(policy) ==
  IF policy = "focused"
  THEN [trigger |-> Fin(75),
        highRelevance |-> Fin(85), highLearning |-> Fin(85),
        highConceptCount |-> Fin(6 * Scale),
        lowRelevance |-> Fin(80), lowLearning |-> Fin(65),
        lowConceptCount |-> Fin(4 * Scale),
        minConceptCount |-> Fin(4 * Scale)]
  ELSE [trigger |-> Fin(60),
        highRelevance |-> Fin(75), highLearning |-> Fin(75),
        highConceptCount |-> Fin(4 * Scale),
        lowRelevance |-> Fin(55), lowLearning |-> Fin(55),
        lowConceptCount |-> Fin(2 * Scale),
        minConceptCount |-> Fin(2 * Scale)]

\* opikLogger.ts: the policy table of the telemetry logger.
POLICY_THRESHOLDS(policy) ==
  IF policy = "focused"
  THEN [trigger |-> Fin(75),
        highRelevance |-> Fin(85), highLearning |-> Fin(85),
        highConceptCount |-> Fin(6 * Scale),
        lowRelevance |-> Fin(65), lowLearning |-> Fin(65),
        lowConceptCount |-> Fin(4 * Scale),
        minConceptCount |-> Fin(4 * Scale)]
  ELSE [trigger |-> Fin(60),
        highRelevance |-> Fin(75), highLearning |-> Fin(75),
        highConceptCount |-> Fin(4 * Scale),
        lowRelevance |-> Fin(55), lowLearning |-> Fin(55),
        lowConceptCount |-> Fin(2 * Scale),
        minConceptCount |-> Fin(2 * Scale)]

\* api/opik-log.ts: the relay's copy of the policy table.
RELAY_POLICY_THRESHOLDS(policy) ==
  IF policy = "focused"
  THEN [trigger |-> Fin(75),
        highRelevance |-> Fin(85), highLearning |-> Fin(85),
        highConceptCount |-> Fin(6 * Scale),
        lowRelevance |-> Fin(65), lowLearning |-> Fin(65),
        lowConceptCount |-> Fin(4 * Scale),
        minConceptCount |-> Fin(4 * Scale)]
  ELSE [trigger |-> Fin(60),
        highRelevance |-> Fin(75), highLearning |-> Fin(75),
        highConceptCount |-> Fin(4 * Scale),
        lowRelevance |-> Fin(55), lowLearning |-> Fin(55),
        lowConceptCount |-> Fin(2 * Scale),
        minConceptCount |-> Fin(2 * Scale)]

(***************************************************************************)
(* Score normalizer, confidence classifier, reason-code resolver           *)
(***************************************************************************)
\* A clamp that also rounds a score down to one decimal.
clamp01_RoundsDown(x) ==
  IF ~IsFinite(x) THEN Fin(0)
  ELSE LET c == MathMax(Fin(0), MathMin(Fin(Scale), x)) IN Fin((c.v \div 10) * 10)

\* opikLogger.ts: clamp01.
clamp01(x) ==
  IF ~IsFinite(x) THEN Fin(0)
  ELSE MathMax(Fin(0), MathMin(Fin(Scale), x))

\* openaiClient.ts: its own copy of clamp01.
clamp01_openai(x) ==
  IF ~IsFinite(x) THEN Fin(0)
  ELSE MathMax(Fin(0), MathMin(Fin(Scale), x))

\* logToOpik: Math.max(0, Math.floor(conceptCount))
normalizeCount(x) == MathMax(Fin(0), MathFloor(x))

\* The classifier with the concept-count test of the low band turned around.
normalizeDecisionConfidence_LowCountFlipped(relevanceScore, learningValueScore, conceptCount, interventionPolicy) ==
  LET policy == POLICY_THRESHOLDS(interventionPolicy) IN
  IF JsGe(relevanceScore, policy.highRelevance)
     /\ JsGe(learningValueScore, policy.highLearning)
     /\ JsGe(conceptCount, policy.highConceptCount)
  THEN "high"
  ELSE IF JsLt(relevanceScore, policy.lowRelevance)
          \/ JsLt(learningValueScore, policy.lowLearning)
          \/ JsGe(conceptCount, policy.lowConceptCount)
  THEN "low"
  ELSE "borderline"

\* The classifier with `high` granted when any one band is met instead of all.
normalizeDecisionConfidence_AnyHigh(relevanceScore, learningValueScore, conceptCount, interventionPolicy) ==
  LET policy == POLICY_THRESHOLDS(interventionPolicy) IN
  IF JsGe(relevanceScore, policy.highRelevance)
     \/ JsGe(learningValueScore, policy.highLearning)
     \/ JsGe(conceptCount, policy.highConceptCount)
  THEN "high"
  ELSE IF JsLt(relevanceScore, policy.lowRelevance)
          \/ JsLt(learningValueScore, policy.lowLearning)
          \/ JsLt(conceptCount, policy.lowConceptCount)
  THEN "low"
  ELSE "borderline"

normalizeDecisionConfidence(relevanceScore, learningValueScore, conceptCount, interventionPolicy) ==
  LET policy == POLICY_THRESHOLDS(interventionPolicy) IN
  IF JsGe(relevanceScore, policy.highRelevance)
     /\ JsGe(learningValueScore, policy.highLearning)
     /\ JsGe(conceptCount, policy.highConceptCount)
  THEN "high"
  ELSE IF JsLt(relevanceScore, policy.lowRelevance)
          \/ JsLt(learningValueScore, policy.lowLearning)
          \/ JsLt(conceptCount, policy.lowConceptCount)
  THEN "low"
  ELSE "borderline"

\* api/opik-log.ts: the relay's copy of the classifier.
relay_normalizeDecisionConfidence(relevanceScore, learningValueScore, conceptCount, interventionPolicy) ==
  LET policy == RELAY_POLICY_THRESHOLDS(interventionPolicy) IN
  IF JsGe(relevanceScore, policy.highRelevance)
     /\ JsGe(learningValueScore, policy.highLearning)
     /\ JsGe(conceptCount, policy.highConceptCount)
  THEN "high"
  ELSE IF JsLt(relevanceScore, policy.lowRelevance)
          \/ JsLt(learningValueScore, policy.lowLearning)
          \/ JsLt(conceptCount, policy.lowConceptCount)
  THEN "low"
  ELSE "borderline"

\* The resolver with the concept-count rule moved in front of the retrieval rule.
normalizeDecisionReasonCode_ConceptsFirst(args) ==
  LET policy == POLICY_THRESHOLDS(args.interventionPolicy) IN
  IF JsLt(args.conceptCount, policy.minConceptCount)
  THEN "insufficient_concepts"
  ELSE IF args.retrievalUsed /\ args.systemDecision = "triggered"
  THEN "retrieval_bridge_used"
  ELSE IF args.systemDecision = "triggered"
  THEN "high_scores"
  ELSE IF JsLt(args.relevanceScore, policy.trigger)
          \/ JsLt(args.learningValueScore, policy.trigger)
  THEN "low_scores"
  ELSE "policy_blocked"

\* The resolver with the low_scores rule moved in front of the concept-count rule.
normalizeDecisionReasonCode_ScoresFirst(args) ==
  LET policy == POLICY_THRESHOLDS(args.interventionPolicy) IN
  IF args.retrievalUsed /\ args.systemDecision = "triggered"
  THEN "retrieval_bridge_used"
  ELSE IF args.systemDecision = "ignored"
          /\ (JsLt(args.relevanceScore, policy.trigger)
              \/ JsLt(args.learningValueScore, policy.trigger))
  THEN "low_scores"
  ELSE IF JsLt(args.conceptCount, policy.minConceptCount)
  THEN "insufficient_concepts"
  ELSE IF args.systemDecision = "triggered"
  THEN "high_scores"
  ELSE "policy_blocked"

\* The resolver with low_scores requiring both scores below the trigger.
normalizeDecisionReasonCode_BothLow(args) ==
  LET policy == POLICY_THRESHOLDS(args.interventionPolicy) IN
  IF args.retrievalUsed /\ args.systemDecision = "triggered"
  THEN "retrieval_bridge_used"
  ELSE IF JsLt(args.conceptCount, policy.minConceptCount)
  THEN "insufficient_concepts"
  ELSE IF args.systemDecision = "triggered"
  THEN "high_scores"
  ELSE IF JsLt(args.relevanceScore, policy.trigger)
          /\ JsLt(args.learningValueScore, policy.trigger)
  THEN "low_scores"
  ELSE "policy_blocked"

normalizeDecisionReasonCode(args) ==
  LET policy == POLICY_THRESHOLDS(args.interventionPolicy) IN
  IF args.retrievalUsed /\ args.systemDecision = "triggered"
  THEN "retrieval_bridge_used"
  ELSE IF JsLt(args.conceptCount, policy.minConceptCount)
  THEN "insufficient_concepts"
  ELSE IF args.systemDecision = "triggered"
  THEN "high_scores"
  ELSE IF JsLt(args.relevanceScore, policy.trigger)
          \/ JsLt(args.learningValueScore, policy.trigger)
  THEN "low_scores"
  ELSE "policy_blocked"

\* A resolver that reads the scores where the code reads the decision.
relay_normalizeDecisionReasonCode_ScoresDecide(args) ==
  LET policy == RELAY_POLICY_THRESHOLDS(args.interventionPolicy) IN
  IF args.retrievalUsed /\ args.systemDecision = "triggered"
  THEN "retrieval_bridge_used"
  ELSE IF JsLt(args.conceptCount, policy.minConceptCount)
  THEN "insufficient_concepts"
  ELSE IF JsGe(args.relevanceScore, policy.trigger)
          /\ JsGe(args.learningValueScore, policy.trigger)
  THEN "high_scores"
  ELSE "low_scores"

\* api/opik-log.ts: the relay's copy of the resolver.
relay_normalizeDecisionReasonCode(args) ==
  LET policy == RELAY_POLICY_THRESHOLDS(args.interventionPolicy) IN
  IF args.retrievalUsed /\ args.systemDecision = "triggered"
  THEN "retrieval_bridge_used"
  ELSE IF JsLt(args.conceptCount, policy.minConceptCount)
  THEN "insufficient_concepts"
  ELSE IF args.systemDecision = "triggered"
  THEN "high_scores"
  ELSE IF JsLt(args.relevanceScore, policy.trigger)
          \/ JsLt(args.learningValueScore, policy.trigger)
  THEN "low_scores"
  ELSE "policy_blocked"

\* A decision input that leaves out the keys whose value is a default (no
\* content id, retrieval unused).
logToOpik_decisionInput_OmitsDefaults(relevanceScore, learningValueScore, decision, conceptCount, contentType, interventionPolicy, retrievalUsedArg, retrievedCount, agentSteps) ==
  IF retrievalUsedArg
  THEN [event_type |-> "content_evaluation", content_type |-> contentType,
        content_dot_type |-> contentType, system_decision |-> decision,
        relevance_score |-> clamp01(relevanceScore),
        learning_value_score |-> clamp01(learningValueScore),
        concept_count |-> normalizeCount(conceptCount),
        intervention_policy |-> interventionPolicy,
        decision_confidence |-> "borderline", retrieval_used |-> TRUE,
        retrieved_count |-> normalizeCount(retrievedCount),
        agent_steps |-> agentSteps, decision_reason_code |-> "retrieval_bridge_used"]
  ELSE [event_type |-> "content_evaluation", content_type |-> contentType,
        content_dot_type |-> contentType, system_decision |-> decision,
        relevance_score |-> clamp01(relevanceScore),
        learning_value_score |-> clamp01(learningValueScore),
        concept_count |-> normalizeCount(conceptCount),
        intervention_policy |-> interventionPolicy,
        decision_confidence |-> "borderline", decision_reason_code |-> "low_scores"]

\* logToOpik, lines 239-280: the normalized values and the decision input
\* handed to the Opik trace.
logToOpik_decisionInput(relevanceScore, learningValueScore, decision, conceptCount, contentType, interventionPolicy, retrievalUsedArg, retrievedCount, agentSteps) ==
  LET normalizedRelevanceScore == clamp01(relevanceScore)
      normalizedLearningValueScore == clamp01(learningValueScore)
      normalizedConceptCount == normalizeCount(conceptCount)
      normalizedRetrievedCount ==
        IF retrievalUsedArg THEN normalizeCount(retrievedCount) ELSE Fin(0)
      decisionConfidence ==
        normalizeDecisionConfidence(normalizedRelevanceScore,
                                    normalizedLearningValueScore,
                                    normalizedConceptCount, interventionPolicy)
      decisionReasonCode ==
        normalizeDecisionReasonCode(
          [systemDecision |-> decision,
           relevanceScore |-> normalizedRelevanceScore,
           learningValueScore |-> normalizedLearningValueScore,
           conceptCount |-> normalizedConceptCount,
           interventionPolicy |-> interventionPolicy,
           retrievalUsed |-> retrievalUsedArg])
  IN [event_type |-> "content_evaluation",
      content_type |-> contentType,
      content_dot_type |-> contentType,
      content_id |-> "null",
      system_decision |-> decision,
      relevance_score |-> normalizedRelevanceScore,
      learning_value_score |-> normalizedLearningValueScore,
      concept_count |-> normalizedConceptCount,
      intervention_policy |-> interventionPolicy,
      decision_confidence |-> decisionConfidence,
      retrieval_used |-> retrievalUsedArg,
      retrieved_count |-> normalizedRetrievedCount,
      agent_steps |-> agentSteps,
      decision_reason_code |-> decisionReasonCode]

\* logToOpik, lines 282-421: what the trace and its spans carry besides the
\* decision input.  The generate_questions span exists only for a triggered
\* decision with at least one question.
logToOpik_trace(traceId, relevanceScore, learningValueScore, decision, conceptCount, userIdHash, contentType, interventionPolicy, recallQuestionCount, retrievalUsedArg, retrievedCount, topOverlapScore, overlapConceptsCount, agentSteps) ==
  LET decisionInput ==
        logToOpik_decisionInput(relevanceScore, learningValueScore, decision,
                                conceptCount, contentType, interventionPolicy,
                                retrievalUsedArg, retrievedCount, agentSteps)
  IN [input |-> decisionInput,
      output |-> [system_decision |-> decision,
                  decision_reason_code |-> decisionInput.decision_reason_code],
      signal_trace_id |-> traceId,
      user_id_hash |-> userIdHash,
      top_overlap_score |-> clamp01(topOverlapScore),
      overlap_concepts_count |->
        IF retrievalUsedArg THEN normalizeCount(overlapConceptsCount) ELSE Fin(0),
      triggered |-> decision = "triggered",
      threshold |-> LOGGER_TRIGGER_THRESHOLDS(interventionPolicy),
      questions_span |-> decision = "triggered" /\ recallQuestionCount > 0,
      questions_count |-> recallQuestionCount]

(***************************************************************************)
(* utils/openaiClient.ts: policy, learning mode, question plan             *)
(***************************************************************************)
normalizePolicy(value) ==
  IF value = "aggressive" THEN "aggressive" ELSE "focused"

\* value.trim().toLowerCase().replace(/[-\s]+/g, "_") on the sampled strings.
TrimLowerUnderscore(value) ==
  CASE value = "Interview Prep" -> "interview_prep"
    [] value = " exam-prep " -> "exam_prep"
    [] value = "DeepFocus" -> "deepfocus"
    [] value = "deep focus" -> "deep_focus"
    [] value = "CASUAL" -> "casual"
    [] OTHER -> value

\* The strings sampled as learning_mode; "" is falsy, like a missing value.
LearningModeSamples ==
  {"", "Interview Prep", " exam-prep ", "DeepFocus", "deep focus", "CASUAL",
   "interview_prep", "assessment_exam_prep", "general_learning", "speedrun"}

normalizeLearningMode(value) ==
  IF value = "" THEN "general_learning"
  ELSE LET normalized == TrimLowerUnderscore(value) IN
       IF normalized \in {"interview_prep", "interview"} THEN "interview_prep"
       ELSE IF normalized \in {"assessment_exam_prep", "assessment_prep", "assessment",
                               "exam_prep", "examprep", "exam"}
       THEN "assessment_exam_prep"
       ELSE IF normalized \in {"general_learning", "general", "casual"}
       THEN "general_learning"
       ELSE IF normalized \in {"deep_focus", "deepfocus"} THEN "interview_prep"
       ELSE "general_learning"

questionPlanForMode(mode) ==
  CASE mode = "interview_prep" ->
         [mode |-> mode, openTarget |-> 3, mcqTarget |-> 1, ordering |-> "open_first"]
    [] mode = "assessment_exam_prep" ->
         [mode |-> mode, openTarget |-> 1, mcqTarget |-> 3, ordering |-> "mcq_first"]
    [] OTHER ->
         [mode |-> "general_learning", openTarget |-> 2, mcqTarget |-> 2,
          ordering |-> "balanced"]

\* array.slice(0, n)
SliceTo(seq, n) == SubSeq(seq, 1, IF Len(seq) < n THEN Len(seq) ELSE n)

\* A concept string: key names it up to case and surrounding blanks (key 0 is a
\* blank string), var tells apart spellings of the same key.
Concept(key, var) == [key |-> key, var |-> var]

\* The text conceptAt falls back to: "the main concept from this content".
MainConceptText == [key |-> -1, var |-> 0]

\* No concept: a question that was not synthesized from a concept.
NoConcept == [key |-> -2, var |-> 0]

RECURSIVE normalizeConceptsFrom(_, _, _, _)
normalizeConceptsFrom(cleaned, i, seen, max) ==
  IF i > Len(cleaned) THEN <<>>
  ELSE IF cleaned[i].key \in seen
  THEN normalizeConceptsFrom(cleaned, i + 1, seen, max)
  ELSE IF Cardinality(seen) + 1 >= max
  THEN <<Concept(cleaned[i].key, cleaned[i].var)>>
  ELSE <<Concept(cleaned[i].key, cleaned[i].var)>>
       \o normalizeConceptsFrom(cleaned, i + 1, seen \cup {cleaned[i].key}, max)

\* A raw entry is kept when it is a string of 3..80 characters that is not on
\* the vague list (kind "ok"); duplicates by lower-cased text are dropped and
\* the list is capped at max.
IsCleanConcept(c) == c.kind = "ok"

normalizeConcepts(input, max) ==
  normalizeConceptsFrom(SelectSeq(input, IsCleanConcept), 1, {}, max)

\* normalizeQuestions keeps a raw candidate when it is an object of type open or
\* mcq with a question of 8..220 characters and, for mcq, exactly 4 string
\* options of 2..120 characters, all distinct, and a correct_index in 0..3.
IsValidQuestion(q) ==
  /\ q.obj
  /\ q.type \in {"open", "mcq"}
  /\ q.qlen >= 8 /\ q.qlen <= 220
  /\ q.type = "mcq" =>
       /\ q.nopts = 4
       /\ q.ci \in 0..3
       /\ q.optlen_ok
       /\ q.nuniq = 4

RECURSIVE normalizeQuestionsFrom(_, _)
normalizeQuestionsFrom(input, i) ==
  IF i > Len(input) THEN <<>>
  ELSE (IF IsValidQuestion(input[i])
        THEN <<[type |-> input[i].type, src |-> "model", id |-> i,
                tmpl |-> "model", concept |-> NoConcept]>>
        ELSE <<>>)
       \o normalizeQuestionsFrom(input, i + 1)

normalizeQuestions(input) == normalizeQuestionsFrom(input, 1)

conceptAt(concepts, index) ==
  IF Len(concepts) = 0 THEN MainConceptText
  ELSE concepts[(index % Len(concepts)) + 1]

buildFallbackOpenQuestions(concepts, needed, mode) ==
  [j \in 1..needed |->
     LET i == j - 1 IN
     [type |-> "open", src |-> "fallback", id |-> i,
      tmpl |-> CASE mode = "assessment_exam_prep" -> "define_then_apply"
                 [] mode = "interview_prep" ->
                      IF i % 2 = 0 THEN "explain_in_your_own_words" ELSE "walk_me_through"
                 [] OTHER -> "what_is_and_where",
      concept |-> conceptAt(concepts, i)]]

buildFallbackMcqQuestions(concepts, needed, mode) ==
  [j \in 1..needed |->
     LET i == j - 1 IN
     [type |-> "mcq", src |-> "fallback", id |-> i,
      tmpl |-> CASE mode = "assessment_exam_prep" -> "which_is_true"
                 [] mode = "interview_prep" -> "which_explanation"
                 [] OTHER -> "which_option_best",
      concept |-> conceptAt(concepts, i)]]

IsOpen(q) == q.type = "open"

IsMcq(q) == q.type = "mcq"

\* An ordering that always emits the open questions first.
orderQuestions_AlwaysOpenFirst(openQuestions, mcqQuestions, ordering) ==
  openQuestions \o mcqQuestions

orderQuestions(openQuestions, mcqQuestions, ordering) ==
  IF ordering = "open_first" THEN openQuestions \o mcqQuestions
  ELSE IF ordering = "mcq_first" THEN mcqQuestions \o openQuestions
  ELSE LET maxLen == IF Len(openQuestions) > Len(mcqQuestions)
                     THEN Len(openQuestions) ELSE Len(mcqQuestions)
           RECURSIVE Interleave(_)
           Interleave(i) ==
             IF i > maxLen THEN <<>>
             ELSE (IF i <= Len(openQuestions) THEN <<openQuestions[i]>> ELSE <<>>)
                  \o (IF i <= Len(mcqQuestions) THEN <<mcqQuestions[i]>> ELSE <<>>)
                  \o Interleave(i + 1)
       IN Interleave(1)

\* An enforcer that discards a pool that is short and fills every slot of that
\* type with fallbacks.
enforceQuestionPlan_FallbackWhenShort(candidates, concepts, plan) ==
  LET openCandidates == SelectSeq(candidates, IsOpen)
      mcqCandidates == SelectSeq(candidates, IsMcq)
      openQuestions ==
        IF Len(openCandidates) < plan.openTarget
        THEN buildFallbackOpenQuestions(concepts, plan.openTarget, plan.mode)
        ELSE SliceTo(openCandidates, plan.openTarget)
      mcqQuestions ==
        IF Len(mcqCandidates) < plan.mcqTarget
        THEN buildFallbackMcqQuestions(concepts, plan.mcqTarget, plan.mode)
        ELSE SliceTo(mcqCandidates, plan.mcqTarget)
  IN orderQuestions(openQuestions, mcqQuestions, plan.ordering)

enforceQuestionPlan(candidates, concepts, plan) ==
  LET openCandidates == SelectSeq(candidates, IsOpen)
      mcqCandidates == SelectSeq(candidates, IsMcq)
      openTaken == SliceTo(openCandidates, plan.openTarget)
      openQuestions ==
        IF Len(openTaken) < plan.openTarget
        THEN openTaken \o buildFallbackOpenQuestions(concepts,
                            plan.openTarget - Len(openTaken), plan.mode)
        ELSE openTaken
      mcqTaken == SliceTo(mcqCandidates, plan.mcqTarget)
      mcqQuestions ==
        IF Len(mcqTaken) < plan.mcqTarget
        THEN mcqTaken \o buildFallbackMcqQuestions(concepts,
                           plan.mcqTarget - Len(mcqTaken), plan.mode)
        ELSE mcqTaken
  IN orderQuestions(openQuestions, mcqQuestions, plan.ordering)

(***************************************************************************)
(* utils/openaiClient.ts: analyzeContent                                   *)
(***************************************************************************)
\* A JSON value of the model's reply is a record [t, v]; Number(value) is:
\*   undefined (a missing field) -> NaN      null -> 0
\*   true -> 1, false -> 0                   a number -> itself
\*   a number literal too large for a double (1e999) -> +Infinity, -1e999 -> -Infinity
\*   a numeric string ("0.8") -> its value   any other string ("high") -> NaN
Number(j) ==
  CASE j.t = "undefined" -> NaN
    [] j.t = "null" -> Fin(0)
    [] j.t = "bool" -> Fin(j.v * Scale)
    [] j.t = "num" -> Fin(j.v)
    [] j.t = "numstr" -> Fin(j.v)
    [] j.t = "huge" -> IF j.v > 0 THEN PInf ELSE NInf
    [] OTHER -> NaN

\* A decision that trusts a decision suggested by the model when there is one.
analyzeContent_decision_TrustModel(relevance_score, learning_value_score, triggerThreshold, parsed) ==
  IF parsed.decision \in {"triggered", "ignored"} THEN parsed.decision
  ELSE IF JsGe(relevance_score, triggerThreshold) /\ JsGe(learning_value_score, triggerThreshold)
  THEN "triggered" ELSE "ignored"

\* analyzeContent, lines 456-460: the server is the source of truth.
analyzeContent_decision(relevance_score, learning_value_score, triggerThreshold, parsed) ==
  IF JsGe(relevance_score, triggerThreshold) /\ JsGe(learning_value_score, triggerThreshold)
  THEN "triggered" ELSE "ignored"

\* analyzeContent, lines 381-385 and 451-478, on a reply that parsed as JSON.
analyzeContent(parsed, interventionPolicy, learningMode) ==
  LET policy == normalizePolicy(interventionPolicy)
      mode == normalizeLearningMode(learningMode)
      questionPlan == questionPlanForMode(mode)
      triggerThreshold == TRIGGER_THRESHOLDS(policy)
      relevance_score == clamp01_openai(Number(parsed.relevance_score))
      learning_value_score == clamp01_openai(Number(parsed.learning_value_score))
      decision == analyzeContent_decision(relevance_score, learning_value_score,
                                          triggerThreshold, parsed)
      concepts == normalizeConcepts(parsed.concepts, 10)
      normalized == SliceTo(normalizeQuestions(parsed.recall_questions), 8)
  IN [ok |-> TRUE,
      concepts |-> concepts,
      relevance_score |-> relevance_score,
      learning_value_score |-> learning_value_score,
      decision |-> decision,
      recall_questions |->
        IF decision = "triggered"
        THEN enforceQuestionPlan(normalized, concepts, questionPlan)
        ELSE <<>>]

(***************************************************************************)
(* api/analyze: request schema, retrieval, bridge question                 *)
(***************************************************************************)
\* The handler's own copy of normalizeLearningMode.
handler_normalizeLearningMode(value) ==
  IF value = "" THEN "general_learning"
  ELSE LET normalized == TrimLowerUnderscore(value) IN
       IF normalized \in {"interview_prep", "interview"} THEN "interview_prep"
       ELSE IF normalized \in {"assessment_exam_prep", "assessment_prep", "assessment",
                               "exam_prep", "examprep", "exam"}
       THEN "assessment_exam_prep"
       ELSE IF normalized \in {"general_learning", "general", "casual"}
       THEN "general_learning"
       ELSE IF normalized \in {"deep_focus", "deepfocus"} THEN "interview_prep"
       ELSE "general_learning"

\* A schema that takes any string as intervention_policy.
AnalyzeRequestSchema_AnyPolicy(body) ==
  [success |-> body.fields_ok,
   data |-> [body EXCEPT !.intervention_policy =
               IF body.intervention_policy = "undefined" THEN "focused"
               ELSE body.intervention_policy]]

\* AnalyzeRequestSchema.safeParse: intervention_policy is
\* z.enum(['focused', 'aggressive']).default('focused'); fields_ok stands for
\* the other fields passing their checks.
AnalyzeRequestSchema(body) ==
  [success |-> /\ body.fields_ok
               /\ body.intervention_policy \in {"undefined", "focused", "aggressive"},
   data |-> [body EXCEPT !.intervention_policy =
               IF body.intervention_policy = "undefined" THEN "focused"
               ELSE body.intervention_policy]]

\* A content type that is the URL itself.
getContentType_Url(url) == url

getContentType(url) == IF url = "youtube" THEN "video" ELSE "article"

IsNonBlank(c) == c.key # 0

IsUsableDigestItem(item) ==
  ~item.id_blank /\ ~item.title_blank /\ Len(item.concepts) > 0

normalizeLibraryDigest(items) ==
  LET mapped == [i \in 1..Len(SliceTo(items, 100)) |->
                   [contentId |-> items[i].content_id,
                    title |-> items[i].content_id,
                    id_blank |-> items[i].id_blank,
                    title_blank |-> items[i].title_blank,
                    concepts |-> SliceTo(SelectSeq(items[i].concepts, IsNonBlank), 12),
                    createdAt |-> items[i].created_at]]
  IN SelectSeq(mapped, IsUsableDigestItem)

\* The concepts of an item whose key is in the new content's key set, each
\* distinct spelling once, in order of first appearance (a Set of strings).
RECURSIVE overlapOf(_, _, _, _)
overlapOf(concepts, i, keys, acc) ==
  IF i > Len(concepts) THEN acc
  ELSE IF concepts[i].key \in keys /\ \A j \in 1..Len(acc) : acc[j] # concepts[i]
  THEN overlapOf(concepts, i + 1, keys, Append(acc, concepts[i]))
  ELSE overlapOf(concepts, i + 1, keys, acc)

\* The comparator of the candidate sort: higher overlap first, then newer first.
candidateCompare(a, b) ==
  IF b.overlapScore # a.overlapScore THEN b.overlapScore - a.overlapScore
  ELSE b.createdAt - a.createdAt

\* Array.prototype.sort is stable: an element goes behind every element that
\* does not sort after it.
RECURSIVE sortCandidates(_)
sortCandidates(c) ==
  IF Len(c) <= 1 THEN c
  ELSE LET sorted == sortCandidates(SubSeq(c, 1, Len(c) - 1))
           x == c[Len(c)]
           k == Cardinality({j \in 1..Len(sorted) : candidateCompare(sorted[j], x) <= 0})
       IN SubSeq(sorted, 1, k) \o <<x>> \o SubSeq(sorted, k + 1, Len(sorted))

computeRetrievalCandidates(newConcepts, digest) ==
  IF Len(newConcepts) = 0 \/ Len(digest) = 0 THEN <<>>
  ELSE LET newConceptSet == {newConcepts[i].key : i \in 1..Len(newConcepts)} \ {0}
           newConceptCount == Cardinality(newConceptSet)
           scored == [i \in 1..Len(digest) |->
                        LET overlap == overlapOf(digest[i].concepts, 1, newConceptSet, <<>>)
                        IN [contentId |-> digest[i].contentId,
                            title |-> digest[i].title,
                            concepts |-> digest[i].concepts,
                            createdAt |-> digest[i].createdAt,
                            overlapConcepts |-> overlap,
                            overlapScore |-> Len(overlap)]]
           IsCandidate(c) ==
             c.overlapScore >= 2 /\ 4 * c.overlapScore >= newConceptCount
       IN IF newConceptCount = 0 THEN <<>>
          ELSE SliceTo(sortCandidates(SelectSeq(scored, IsCandidate)), 2)

\* The bridge question generateBridgeQuestion returns when the model's reply is valid.
BridgeQuestion ==
  [type |-> "open", src |-> "bridge", id |-> 0, tmpl |-> "bridge", concept |-> NoConcept]

\* A bridge step that adds the bridge question in front instead of replacing one.
applyBridgeQuestion_Prepend(questions, bridge) == <<bridge>> \o questions

applyBridgeQuestion(questions, bridge) ==
  LET opens == {i \in 1..Len(questions) : questions[i].type = "open"} IN
  IF opens # {}
  THEN LET openIndex == CHOOSE i \in opens : \A j \in opens : i <= j
       IN [questions EXCEPT ![openIndex] = bridge]
  ELSE IF Len(questions) > 0 THEN [questions EXCEPT ![1] = bridge]
  ELSE <<bridge>>

(***************************************************************************)
(* The relay endpoints (api/opik-log, api/feedback, api/recall,            *)
(* api/grade-recall): token check and privacy scan                         *)
(***************************************************************************)
\* A key of a JSON object: its text in lower case and the positions written in
\* upper case.
Key(text, upper) == [text |-> text, upper |-> upper]

\* String.prototype.toLowerCase on a key.
toLowerCase_Identity(key) == key

toLowerCase(key) == [key EXCEPT !.upper = {}]

\* utils/privacy.ts: FORBIDDEN_FIELDS.
FORBIDDEN_FIELDS ==
  {"raw_content", "content", "transcript", "transcripts", "user_goals", "goals",
   "emotional_feedback", "emotion", "user_id", "email", "name", "username",
   "device_id", "ip_address"}

FORBIDDEN_SET == {toLowerCase(Key(f, {})) : f \in FORBIDDEN_FIELDS}

\* A JSON value: null, a primitive, an array of values or an object of entries.
JNull == [t |-> "null", items |-> <<>>, entries |-> <<>>]

JPrim == [t |-> "prim", items |-> <<>>, entries |-> <<>>]

JArray(items) == [t |-> "array", items |-> items, entries |-> <<>>]

JObject(entries) == [t |-> "object", items |-> <<>>, entries |-> entries]

JEntry(text, value) == [key |-> Key(text, {}), value |-> value]

\* utils/privacy.ts: validatePrivacyConstraintsRecursive; error names the
\* offending key.
RECURSIVE validatePrivacyConstraintsRecursive(_)
RECURSIVE validatePrivacy_items(_, _)
RECURSIVE validatePrivacy_keys(_, _)
validatePrivacy_items(items, i) ==
  IF i > Len(items) THEN [valid |-> TRUE, error |-> "none"]
  ELSE LET result == validatePrivacyConstraintsRecursive(items[i]) IN
       IF ~result.valid THEN result ELSE validatePrivacy_items(items, i + 1)

validatePrivacy_keys(entries, i) ==
  IF i > Len(entries) THEN [valid |-> TRUE, error |-> "none"]
  ELSE IF toLowerCase(entries[i].key) \in FORBIDDEN_SET
  THEN [valid |-> FALSE, error |-> entries[i].key.text]
  ELSE LET result == validatePrivacyConstraintsRecursive(entries[i].value) IN
       IF ~result.valid THEN result ELSE validatePrivacy_keys(entries, i + 1)

validatePrivacyConstraintsRecursive(body) ==
  IF body.t \in {"null", "prim"} THEN [valid |-> TRUE, error |-> "none"]
  ELSE IF body.t = "array" THEN validatePrivacy_items(body.items, 1)
  ELSE validatePrivacy_keys(body.entries, 1)

\* A header or an environment variable: unset, or a string.
Unset == [set |-> FALSE, v |-> ""]

Str(v) == [set |-> TRUE, v |-> v]

\* utils/relayAuth.ts: validateRelayToken.  !expectedToken holds for an unset
\* and for an empty RELAY_TOKEN.
validateRelayToken(r, processEnv) ==
  LET token == r.header
      expectedToken == processEnv.RELAY_TOKEN
  IN IF ~expectedToken.set \/ expectedToken.v = "" THEN FALSE
     ELSE token.set /\ token.v = expectedToken.v

RelayEndpoints == {"opik-log", "feedback", "recall", "grade-recall"}

RelayPass == [status |-> 0, error |-> "none"]

\* The checks with the privacy scan and the schema before the token.
relayHandlerChecks_TokenLast(r, processEnv) ==
  IF r.method # "POST" THEN [status |-> 405, error |-> "Method not allowed"]
  ELSE IF ~validatePrivacyConstraintsRecursive(r.body.json).valid
  THEN [status |-> 400, error |-> "forbidden fields"]
  ELSE IF ~r.body.schema_ok
  THEN [status |-> 400, error |-> "Invalid request schema"]
  ELSE IF ~validateRelayToken(r, processEnv)
  THEN [status |-> 401, error |-> "Unauthorized"]
  ELSE RelayPass

\* The checks every relay handler opens with, in the handler's order: method,
\* token, privacy scan, schema.  schema_ok stands for the endpoint's zod schema
\* accepting the body.
relayHandlerChecks(r, processEnv) ==
  IF r.method # "POST" THEN [status |-> 405, error |-> "Method not allowed"]
  ELSE IF ~validateRelayToken(r, processEnv)
  THEN [status |-> 401, error |-> "Unauthorized"]
  ELSE IF ~validatePrivacyConstraintsRecursive(r.body.json).valid
  THEN [status |-> 400, error |-> "forbidden fields"]
  ELSE IF ~r.body.schema_ok
  THEN [status |-> 400, error |-> "Invalid request schema"]
  ELSE RelayPass

RelayOff ==
  [step |-> "off", endpoint |-> "none",
   req |-> [method |-> "none", header |-> Unset,
            body |-> [json |-> JNull, schema_ok |-> FALSE, event_type |-> "none"]],
   env |-> [RELAY_TOKEN |-> Unset, opik |-> "ok", llm |-> "ok",
            grade |-> [t |-> "num", v |-> 0]],
   res |-> RelayPass,
   body |-> [ok |-> FALSE, skipped |-> FALSE, score |-> [k |-> "none", v |-> 0],
             correct |-> FALSE],
   responses |-> 0, effects |-> {}, sent |-> <<>>]

(***************************************************************************)
(* The pure functions applied to arbitrary numbers (specification SpecFn). *)
(* Init draws the arguments; FnClassify applies both copies of the         *)
(* classifier and of the resolver to them as they are; FnLogToOpik applies *)
(* logToOpik's normalization and builds its decision input.                *)
(***************************************************************************)
ScoreSamples ==
  {NaN, PInf, NInf} \cup
  {Fin(n) : n \in {-500, -1, 0, 54, 55, 59, 60, 62, 64, 65, 74, 75, 80, 84, 85, 100, 101, 150}}

CountSamples ==
  {NaN, PInf, NInf} \cup
  {Fin(n) : n \in {-500, -100, -1, 0, 50, 100, 199, 200, 300, 350, 400, 599, 600, 700}}

Decisions == {"triggered", "ignored"}

NoClassification ==
  [confidence |-> "none", relayConfidence |-> "none",
   reason |-> "none", relayReason |-> "none"]

NoDecisionInput ==
  [event_type |-> "none", content_type |-> "none", content_dot_type |-> "none",
   content_id |-> "null", system_decision |-> "none",
   relevance_score |-> Fin(0), learning_value_score |-> Fin(0),
   concept_count |-> Fin(0), intervention_policy |-> "none",
   decision_confidence |-> "none", retrieval_used |-> FALSE,
   retrieved_count |-> Fin(0), agent_steps |-> <<>>,
   decision_reason_code |-> "none"]

FnOff ==
  [step |-> "off", relevance |-> Fin(0), learning |-> Fin(0),
   conceptCount |-> Fin(0), policy |-> "focused", decision |-> "ignored",
   retrievalUsed |-> FALSE, cls |-> NoClassification, input |-> NoDecisionInput]

FnArgs(f) ==
  [systemDecision |-> f.decision,
   relevanceScore |-> f.relevance,
   learningValueScore |-> f.learning,
   conceptCount |-> f.conceptCount,
   interventionPolicy |-> f.policy,
   retrievalUsed |-> f.retrievalUsed]

\* The module-level state of opikLogger.ts while no call to getOpikClient is
\* modelled: opikClientPromise is null.
ClientOff ==
  [step |-> "off", apiKey |-> FALSE, sdk |-> "ok", opikClientPromise |-> 0,
   promises |-> <<>>, constructed |-> 0, callers |-> <<>>]

HandlerOff ==
  /\ pc = "off"
  /\ req = "none"
  /\ env = "none"
  /\ data = "none"
  /\ analysis = "none"
  /\ recallQuestions = <<>>
  /\ retrievalUsed = FALSE
  /\ relatedItems = <<>>
  /\ telemetry = <<>>
  /\ res = "none"
  /\ calls = {}
  /\ responses = 0
  /\ unhandled = FALSE

InitFn ==
  /\ HandlerOff
  /\ relay = RelayOff
  /\ client = ClientOff
  /\ \E r \in ScoreSamples, l \in ScoreSamples, c \in CountSamples,
        p \in InterventionPolicies, d \in Decisions, u \in BOOLEAN :
       fn = [FnOff EXCEPT !.step = "start", !.relevance = r, !.learning = l,
                          !.conceptCount = c, !.policy = p, !.decision = d,
                          !.retrievalUsed = u]

FnClassify ==
  /\ fn.step = "start"
  /\ fn' = [fn EXCEPT
       !.step = "classified",
       !.cls = [confidence |->
                  normalizeDecisionConfidence(fn.relevance, fn.learning,
                                              fn.conceptCount, fn.policy),
                relayConfidence |->
                  relay_normalizeDecisionConfidence(fn.relevance, fn.learning,
                                                    fn.conceptCount, fn.policy),
                reason |-> normalizeDecisionReasonCode(FnArgs(fn)),
                relayReason |-> relay_normalizeDecisionReasonCode(FnArgs(fn))]]
  /\ UNCHANGED <<handlerVars, relay, client>>

FnLogToOpik ==
  /\ fn.step = "start"
  /\ fn' = [fn EXCEPT
       !.step = "logged",
       !.input = logToOpik_decisionInput(fn.relevance, fn.learning, fn.decision,
                                         fn.conceptCount, "article", fn.policy,
                                         fn.retrievalUsed, Fin(2 * Scale), <<>>)]
  /\ UNCHANGED <<handlerVars, relay, client>>

NextFn == FnClassify \/ FnLogToOpik

SpecFn == InitFn /\ [][NextFn]_vars

(***************************************************************************)
(* Inputs of a request: the request itself and what the collaborators      *)
(* (content fetch, model, bridge model call, Opik) answer.                 *)
(***************************************************************************)
\* The longest list of raw question candidates the model's reply holds.
MaxRawQuestions == 9

SeqsUpTo(S, n) == UNION {[1..k -> S] : k \in 0..n}

Json(t, v) == [t |-> t, v |-> v]

JsonScoreSamples ==
  {Json("undefined", 0), Json("null", 0), Json("bool", 1), Json("str", 0),
   Json("numstr", 80), Json("huge", 1), Json("huge", -1)} \cup
  {Json("num", n) : n \in {-500, 0, 59, 60, 64, 65, 74, 75, 80, 84, 85, 100, 150}}

RawOpen ==
  [obj |-> TRUE, type |-> "open", qlen |-> 40, nopts |-> 0, ci |-> 0,
   optlen_ok |-> TRUE, nuniq |-> 0]

RawMcq ==
  [obj |-> TRUE, type |-> "mcq", qlen |-> 40, nopts |-> 4, ci |-> 2,
   optlen_ok |-> TRUE, nuniq |-> 4]

RawQuestionSamples ==
  {RawOpen, RawMcq,
   [RawOpen EXCEPT !.qlen = 8], [RawMcq EXCEPT !.qlen = 220, !.ci = 3],
   [RawOpen EXCEPT !.obj = FALSE], [RawOpen EXCEPT !.type = "essay"],
   [RawOpen EXCEPT !.qlen = 7], [RawMcq EXCEPT !.qlen = 221],
   [RawMcq EXCEPT !.nopts = 3, !.nuniq = 3], [RawMcq EXCEPT !.ci = 4],
   [RawMcq EXCEPT !.nuniq = 3], [RawMcq EXCEPT !.optlen_ok = FALSE]}

RawQuestionLists ==
  SeqsUpTo({RawOpen, RawMcq}, MaxRawQuestions) \cup SeqsUpTo(RawQuestionSamples, 2)

RawConcept(key, var) == [kind |-> "ok", key |-> key, var |-> var]

DistinctConcepts(n) == [i \in 1..n |-> RawConcept(i, 0)]

\* A reply with a repeated concept in another spelling and an unusable entry.
MixedConcepts ==
  <<RawConcept(1, 0), RawConcept(1, 1), [kind |-> "bad", key |-> 5, var |-> 0],
    RawConcept(2, 0)>>

RawConceptLists ==
  {DistinctConcepts(n) : n \in {0, 1, 2, 3, 4, 7, 11}} \cup {MixedConcepts}

DigestItem(id, concepts, created) ==
  [content_id |-> id, id_blank |-> FALSE, title_blank |-> FALSE,
   concepts |-> concepts, created_at |-> created]

DigestSamples ==
  {<<>>,
   <<DigestItem(1, <<Concept(1, 0), Concept(2, 0)>>, 5)>>,
   <<DigestItem(1, <<Concept(1, 0), Concept(2, 0)>>, 5),
     DigestItem(2, <<Concept(1, 0), Concept(2, 0), Concept(3, 0)>>, 3),
     DigestItem(3, <<Concept(2, 0), Concept(3, 0), Concept(9, 0)>>, 7),
     DigestItem(4, <<Concept(9, 0)>>, 9)>>,
   <<DigestItem(5, <<Concept(1, 0), Concept(1, 1)>>, 1)>>,
   <<[DigestItem(6, <<Concept(1, 0), Concept(2, 0)>>, 2) EXCEPT !.title_blank = TRUE],
     DigestItem(7, <<Concept(0, 0), Concept(1, 0)>>, 2)>>}

BaseBody ==
  [fields_ok |-> TRUE, intervention_policy |-> "focused", learning_mode |-> "",
   content_url |-> "web", library_digest |-> <<>>,
   goal_description |-> "goal-a", user_id_hash |-> "hash-a"]

BaseReq == [method |-> "POST", body |-> BaseBody]

BaseParsed ==
  [relevance_score |-> Json("num", 80), learning_value_score |-> Json("num", 80),
   decision |-> "undefined", concepts |-> DistinctConcepts(3),
   recall_questions |-> <<>>]

BaseEnv ==
  [fetch |-> "ok", content |-> "text-a", model |-> "ok", parsed |-> BaseParsed,
   bridge |-> "question", opik |-> "ok", traceId |-> "trace-1"]

\* Requests that differ in method, schema validity, policy and learning mode.
RequestScenarios ==
  {<<[method |-> m,
      body |-> [BaseBody EXCEPT !.fields_ok = f, !.intervention_policy = p,
                                !.learning_mode = lm, !.content_url = u]],
     BaseEnv>> :
     m \in {"POST", "GET"}, f \in BOOLEAN,
     p \in {"undefined", "focused", "aggressive", "lenient"},
     lm \in LearningModeSamples, u \in {"web", "youtube"}}

\* Outcomes of the collaborators.
CollaboratorScenarios ==
  {<<BaseReq, [BaseEnv EXCEPT !.fetch = f, !.model = m, !.opik = o]>> :
     f \in {"ok", "empty", "fail", "timeout"},
     m \in {"ok", "fail", "no_text", "bad_json", "timeout"},
     o \in {"ok", "no_key", "throws", "late_reject", "hang"}}

\* Every sampled pair of scores under every policy and suggested decision.
ScoreScenarios ==
  {<<[BaseReq EXCEPT !.body.intervention_policy = p],
     [BaseEnv EXCEPT !.parsed = [BaseParsed EXCEPT !.relevance_score = r,
                                                    !.learning_value_score = l,
                                                    !.decision = d,
                                                    !.concepts = DistinctConcepts(n)]]>> :
     p \in {"undefined", "focused", "aggressive"},
     r \in JsonScoreSamples, l \in JsonScoreSamples,
     d \in {"undefined", "triggered", "ignored"}, n \in {3, 7}}

\* Every sampled list of question candidates under every plan.
PlanScenarios ==
  {<<[BaseReq EXCEPT !.body.learning_mode = lm, !.body.library_digest = dg],
     [BaseEnv EXCEPT !.parsed = [BaseParsed EXCEPT !.relevance_score = Json("num", r),
                                                    !.learning_value_score = Json("num", r),
                                                    !.recall_questions = q]]>> :
     lm \in {"", "Interview Prep", " exam-prep "},
     dg \in {<<>>, <<DigestItem(1, <<Concept(1, 0), Concept(2, 0)>>, 5)>>},
     r \in {50, 90}, q \in RawQuestionLists}

\* Concept lists against library digests, with and without a usable bridge reply.
RetrievalScenarios ==
  {<<[BaseReq EXCEPT !.body.intervention_policy = p, !.body.library_digest = dg],
     [BaseEnv EXCEPT !.bridge = b,
                     !.parsed = [BaseParsed EXCEPT !.relevance_score = Json("num", r),
                                                    !.concepts = c,
                                                    !.recall_questions = q]]>> :
     p \in {"focused", "aggressive"}, dg \in DigestSamples,
     b \in {"question", "null", "hang"}, r \in {50, 90}, c \in RawConceptLists,
     q \in {<<>>, <<RawMcq, RawMcq, RawMcq, RawMcq>>}}

\* Requests that differ in what must stay private (content text, goal
\* description) and in the identifiers that may be logged.
PrivacyScenarios ==
  {<<[BaseReq EXCEPT !.body.goal_description = g, !.body.user_id_hash = h,
                     !.body.library_digest = dg, !.body.content_url = u],
     [BaseEnv EXCEPT !.content = c, !.traceId = t, !.opik = o, !.bridge = b]>> :
     g \in {"goal-a", "goal-b"}, h \in {"hash-a", "hash-b"},
     dg \in {<<>>, <<DigestItem(1, <<Concept(1, 0), Concept(2, 0)>>, 5)>>},
     c \in {"text-a", "text-b"}, t \in {"trace-1", "trace-2"},
     o \in {"ok", "throws", "late_reject", "hang"}, b \in {"question", "null"},
     u \in {"web", "youtube"}}

Scenarios ==
  RequestScenarios \cup CollaboratorScenarios \cup ScoreScenarios
  \cup PlanScenarios \cup RetrievalScenarios \cup PrivacyScenarios

NoAnalysis ==
  [ok |-> FALSE, concepts |-> <<>>, relevance_score |-> Fin(0),
   learning_value_score |-> Fin(0), decision |-> "none", recall_questions |-> <<>>]

NoBody ==
  [trace_id |-> "none", concepts |-> <<>>, relevance_score |-> Fin(0),
   learning_value_score |-> Fin(0), decision |-> "none", recall_questions |-> <<>>,
   related_items |-> <<>>, retrieval_used |-> FALSE, retrieved_count |-> 0]

NoResponse == [status |-> 0, error |-> "none", body |-> NoBody]

ErrorResponse(status, error) == [status |-> status, error |-> error, body |-> NoBody]

\* How the promise returned by logToOpik settles: "resolved", "rejected" or
\* "pending".  Without an API key it returns at once; a throwing SDK call or a
\* rejected flush is caught by its try/catch; a flush that never completes
\* leaves it pending.
logToOpik_settles(opik) ==
  IF opik = "hang" THEN "pending" ELSE "resolved"

\* Whether the trace was handed to the SDK before the call settled or stalled.
logToOpik_sends(opik) == opik \in {"ok", "late_reject", "hang"}

(***************************************************************************)
(* api/analyze: the handler, one action per await-delimited step           *)
(***************************************************************************)
Init ==
  /\ pc = "start"
  /\ \E sc \in Scenarios : req = sc[1] /\ env = sc[2]
  /\ data = BaseBody
  /\ analysis = NoAnalysis
  /\ recallQuestions = <<>>
  /\ retrievalUsed = FALSE
  /\ relatedItems = <<>>
  /\ telemetry = <<>>
  /\ res = NoResponse
  /\ calls = {}
  /\ responses = 0
  /\ unhandled = FALSE
  /\ fn = FnOff
  /\ relay = RelayOff
  /\ client = ClientOff

\* Method check and schema validation (lines 622-649).
Validate ==
  /\ pc = "start"
  /\ LET validationResult == AnalyzeRequestSchema(req.body) IN
     IF req.method # "POST"
     THEN /\ res' = ErrorResponse(405, "Method not allowed")
          /\ responses' = responses + 1
          /\ pc' = "done"
          /\ data' = data
     ELSE IF ~validationResult.success
     THEN /\ res' = ErrorResponse(400, "Invalid request schema")
          /\ responses' = responses + 1
          /\ pc' = "done"
          /\ data' = data
     ELSE /\ data' = validationResult.data
          /\ pc' = "fetch"
          /\ UNCHANGED <<res, responses>>
  /\ UNCHANGED <<req, env, analysis, recallQuestions, retrievalUsed, relatedItems,
                 telemetry, calls, unhandled, fn, relay, client>>

\* A step that goes on to the analysis when the content is empty.
FetchContent_KeepsEmpty ==
  /\ pc = "fetch"
  /\ calls' = calls \cup {"fetchContent"}
  /\ IF env.fetch \in {"fail", "timeout"}
     THEN /\ res' = ErrorResponse(400, "Content fetch failed")
          /\ responses' = responses + 1
          /\ pc' = "done"
     ELSE /\ pc' = "analyze"
          /\ UNCHANGED <<res, responses>>
  /\ UNCHANGED <<req, env, data, analysis, recallQuestions, retrievalUsed,
                 relatedItems, telemetry, unhandled, fn, relay, client>>

\* Step 1: the content fetch raced against its 30 s deadline (lines 654-677).
FetchContent ==
  /\ pc = "fetch"
  /\ calls' = calls \cup {"fetchContent"}
  /\ IF env.fetch \in {"fail", "timeout"}
     THEN /\ res' = ErrorResponse(400, "Content fetch failed")
          /\ responses' = responses + 1
          /\ pc' = "done"
     ELSE IF env.fetch = "empty"
     THEN /\ res' = ErrorResponse(400, "No content extracted from URL")
          /\ responses' = responses + 1
          /\ pc' = "done"
     ELSE /\ pc' = "analyze"
          /\ UNCHANGED <<res, responses>>
  /\ UNCHANGED <<req, env, data, analysis, recallQuestions, retrievalUsed,
                 relatedItems, telemetry, unhandled, fn, relay, client>>

\* Step 2: analyzeContent raced against its 60 s deadline (lines 679-703).
Analyze ==
  /\ pc = "analyze"
  /\ calls' = calls \cup {"analyzeContent"}
  /\ IF env.model = "ok"
     THEN /\ analysis' = analyzeContent(env.parsed, data.intervention_policy,
                                        handler_normalizeLearningMode(data.learning_mode))
          /\ pc' = "retrieve"
          /\ UNCHANGED <<res, responses>>
     ELSE /\ res' = ErrorResponse(500, "AI analysis failed")
          /\ responses' = responses + 1
          /\ pc' = "done"
          /\ analysis' = analysis
  /\ UNCHANGED <<req, env, data, recallQuestions, retrievalUsed, relatedItems,
                 telemetry, unhandled, fn, relay, client>>

\* Retrieval from the library digest (lines 705-717); with a triggered decision
\* and a candidate the handler goes on to await the bridge question.
Retrieve ==
  /\ pc = "retrieve"
  /\ LET normalizedDigest == normalizeLibraryDigest(data.library_digest)
         retrievalCandidates ==
           computeRetrievalCandidates(analysis.concepts, normalizedDigest)
     IN IF analysis.decision = "triggered" /\ Len(retrievalCandidates) > 0
        THEN /\ calls' = calls \cup {"generateBridgeQuestion"}
             /\ pc' = "bridge"
        ELSE /\ calls' = calls
             /\ pc' = "log"
  /\ recallQuestions' = analysis.recall_questions
  /\ retrievalUsed' = FALSE
  /\ relatedItems' = <<>>
  /\ UNCHANGED <<req, env, data, analysis, telemetry, res, responses, unhandled,
                 fn, relay, client>>

\* The await on generateBridgeQuestion returns (lines 720-739).  The call is
\* awaited as it is, with no timer raced against it: while the model call
\* never completes the handler stays here.
Bridge ==
  /\ pc = "bridge"
  /\ env.bridge # "hang"
  /\ LET normalizedDigest == normalizeLibraryDigest(data.library_digest)
         retrievalCandidates ==
           computeRetrievalCandidates(analysis.concepts, normalizedDigest)
     IN IF env.bridge = "question"
        THEN /\ recallQuestions' = applyBridgeQuestion(recallQuestions, BridgeQuestion)
             /\ retrievalUsed' = TRUE
             /\ relatedItems' =
                  [i \in 1..Len(retrievalCandidates) |->
                     [content_id |-> retrievalCandidates[i].contentId,
                      title |-> retrievalCandidates[i].title,
                      overlap_concepts |-> retrievalCandidates[i].overlapConcepts,
                      overlap_score |-> retrievalCandidates[i].overlapScore]]
        ELSE UNCHANGED <<recallQuestions, retrievalUsed, relatedItems>>
  /\ pc' = "log"
  /\ UNCHANGED <<req, env, data, analysis, telemetry, res, calls, responses,
                 unhandled, fn, relay, client>>

\* A telemetry step that awaits logToOpik as it is, with no catch and no timer.
LogToOpik_Awaited ==
  /\ pc = "log"
  /\ env.opik # "hang"
  /\ calls' = calls \cup {"logToOpik"}
  /\ telemetry' = telemetry
  /\ IF env.opik \in {"throws", "late_reject"}
     THEN /\ res' = ErrorResponse(500, "Internal server error")
          /\ responses' = responses + 1
          /\ pc' = "done"
     ELSE /\ pc' = "respond"
          /\ UNCHANGED <<res, responses>>
  /\ UNCHANGED <<req, env, data, analysis, recallQuestions, retrievalUsed,
                 relatedItems, unhandled, fn, relay, client>>

\* Step 3: logToOpik (lines 741-772).  The returned promise gets a catch
\* handler and is raced against a 2 s timer, so the handler goes on whether the
\* promise resolved, rejected or is still pending.
LogToOpik ==
  /\ pc = "log"
  /\ calls' = calls \cup {"logToOpik"}
  /\ LET retrievedCount == IF retrievalUsed THEN Len(relatedItems) ELSE 0
         topOverlapScore ==
           IF retrievalUsed /\ Len(relatedItems) > 0
           THEN relatedItems[1].overlap_score ELSE 0
         overlapConceptsCount ==
           IF retrievalUsed /\ Len(relatedItems) > 0
           THEN Len(relatedItems[1].overlap_concepts) ELSE 0
         agentSteps == IF retrievalUsed
                       THEN <<"retrieve_related", "generate_bridge_question">>
                       ELSE <<>>
         contentType == getContentType(data.content_url)
     IN IF logToOpik_sends(env.opik)
        THEN telemetry' = Append(telemetry,
               logToOpik_trace(env.traceId, analysis.relevance_score,
                               analysis.learning_value_score, analysis.decision,
                               Fin(Len(analysis.concepts) * Scale),
                               data.user_id_hash, contentType,
                               data.intervention_policy, Len(recallQuestions),
                               retrievalUsed, Fin(retrievedCount * Scale),
                               Fin(topOverlapScore * Scale),
                               Fin(overlapConceptsCount * Scale), agentSteps))
        ELSE telemetry' = telemetry
  /\ LET opikPromise == logToOpik_settles(env.opik)
         caught == TRUE  \* the .catch handler attached at line 766
     IN unhandled' = (unhandled \/ (opikPromise = "rejected" /\ ~caught))
  /\ pc' = "respond"
  /\ UNCHANGED <<req, env, data, analysis, recallQuestions, retrievalUsed,
                 relatedItems, res, responses, fn, relay, client>>

\* A response that carries the decision record instead of the analysis result.
Respond_DecisionRecord ==
  /\ pc = "respond"
  /\ res' = [status |-> 200, error |-> "none",
             body |-> [system_decision |-> analysis.decision,
                       relevance_score |-> analysis.relevance_score,
                       learning_value_score |-> analysis.learning_value_score,
                       concept_count |-> Len(analysis.concepts),
                       intervention_policy |-> data.intervention_policy,
                       retrieval_used |-> retrievalUsed,
                       retrieved_count |->
                         IF retrievalUsed THEN Len(relatedItems) ELSE 0]]
  /\ responses' = responses + 1
  /\ pc' = "done"
  /\ UNCHANGED <<req, env, data, analysis, recallQuestions, retrievalUsed,
                 relatedItems, telemetry, calls, unhandled, fn, relay, client>>

\* Step 4: the 200 response (lines 774-787).
Respond ==
  /\ pc = "respond"
  /\ res' = [status |-> 200, error |-> "none",
             body |-> [trace_id |-> env.traceId,
                       concepts |-> analysis.concepts,
                       relevance_score |-> analysis.relevance_score,
                       learning_value_score |-> analysis.learning_value_score,
                       decision |-> analysis.decision,
                       recall_questions |-> recallQuestions,
                       related_items |-> relatedItems,
                       retrieval_used |-> retrievalUsed,
                       retrieved_count |->
                         IF retrievalUsed THEN Len(relatedItems) ELSE 0]]
  /\ responses' = responses + 1
  /\ pc' = "done"
  /\ UNCHANGED <<req, env, data, analysis, recallQuestions, retrievalUsed,
                 relatedItems, telemetry, calls, unhandled, fn, relay, client>>

Next ==
  Validate \/ FetchContent \/ Analyze \/ Retrieve \/ Bridge \/ LogToOpik \/ Respond

Spec == Init /\ [][Next]_vars

(***************************************************************************)
(* api/opik-log.ts: sendToOpik on a validated event (specification         *)
(* SpecSend).  Init draws an event that OpikLogSchema accepts and the       *)
(* state of the Opik client; SendToOpik applies the function to it.         *)
(***************************************************************************)
\* An optional number that is absent.
Undefined == [k |-> "undefined", v |-> 0]

\* value ?? fallback, on an optional number.
NullishNum(value, fallback) == IF value.k = "undefined" THEN fallback ELSE value

\* value ?? fallback, on an optional string ("undefined" when absent).
NullishStr(value, fallback) == IF value = "undefined" THEN fallback ELSE value

relay_clamp01(value) ==
  IF ~IsFinite(value) THEN Fin(0)
  ELSE MathMax(Fin(0), MathMin(Fin(Scale), value))

\* A decision that is recomputed from the scores whatever the caller supplied.
relay_normalizeSystemDecision_ScoresWin(explicitDecision, relevanceScore, learningValueScore, interventionPolicy) ==
  LET threshold == RELAY_POLICY_THRESHOLDS(interventionPolicy).trigger IN
  IF JsGe(relevanceScore, threshold) /\ JsGe(learningValueScore, threshold)
  THEN "triggered" ELSE "ignored"

relay_normalizeSystemDecision(explicitDecision, relevanceScore, learningValueScore, interventionPolicy) ==
  IF explicitDecision # "undefined" THEN explicitDecision
  ELSE LET threshold == RELAY_POLICY_THRESHOLDS(interventionPolicy).trigger IN
       IF JsGe(relevanceScore, threshold) /\ JsGe(learningValueScore, threshold)
       THEN "triggered" ELSE "ignored"

\* The decision input, the trace output and the metadata identifiers that
\* sendToOpik builds for a content_evaluation event (lines 227-303).  An
\* optional boolean is "true", "false" or "undefined".
sendToOpik_decision(event) ==
  LET interventionPolicy == NullishStr(event.intervention_policy, "focused")
      relevanceScore == relay_clamp01(NullishNum(event.relevance_score, Fin(0)))
      learningValueScore == relay_clamp01(NullishNum(event.learning_value_score, Fin(0)))
      conceptCount == MathMax(Fin(0), MathFloor(NullishNum(event.concept_count, Fin(0))))
      retrievalUsedArg == NullishStr(event.retrieval_used, "false") = "true"
      retrievedCount ==
        IF retrievalUsedArg
        THEN MathMax(Fin(0), NullishNum(event.retrieved_count, Fin(0)))
        ELSE Fin(0)
      systemDecision ==
        relay_normalizeSystemDecision(NullishStr(event.system_decision, event.decision),
                                      relevanceScore, learningValueScore,
                                      interventionPolicy)
      decisionConfidence ==
        NullishStr(event.decision_confidence,
                   relay_normalizeDecisionConfidence(relevanceScore, learningValueScore,
                                                     conceptCount, interventionPolicy))
      decisionReasonCode ==
        NullishStr(event.decision_reason_code,
                   relay_normalizeDecisionReasonCode(
                     [systemDecision |-> systemDecision,
                      relevanceScore |-> relevanceScore,
                      learningValueScore |-> learningValueScore,
                      conceptCount |-> conceptCount,
                      interventionPolicy |-> interventionPolicy,
                      retrievalUsed |-> retrievalUsedArg]))
  IN [name |-> "signal_content_decision",
      input |-> [event_type |-> "content_evaluation",
                 content_dot_type |-> NullishStr(event.content_type, "null"),
                 content_id |-> NullishStr(event.content_id, "null"),
                 system_decision |-> systemDecision,
                 relevance_score |-> relevanceScore,
                 learning_value_score |-> learningValueScore,
                 concept_count |-> conceptCount,
                 intervention_policy |-> interventionPolicy,
                 decision_confidence |-> decisionConfidence,
                 retrieval_used |-> retrievalUsedArg,
                 retrieved_count |-> retrievedCount,
                 agent_steps |-> event.agent_steps,
                 decision_reason_code |-> decisionReasonCode],
      output |-> [system_decision |-> systemDecision,
                  decision_reason_code |-> decisionReasonCode],
      signal_trace_id |-> event.trace_id,
      user_id_hash |-> event.user_id_hash]

\* The trace sendToOpik builds for any other event (lines 305-334).
sendToOpik_event(event) ==
  [name |-> "signal_observability_event",
   input |-> [event_type |-> event.event_type,
              content_dot_type |-> event.content_type],
   output |-> [user_feedback |-> event.user_feedback],
   signal_trace_id |-> event.trace_id,
   user_id_hash |-> event.user_id_hash]

\* sendToOpik (lines 219-335): without a client it throws; otherwise it builds
\* the trace of the event's type and awaits the flush, which may throw.
sendToOpik(event, opik) ==
  IF opik = "no_key" THEN [outcome |-> "thrown", traces |-> <<>>]
  ELSE IF opik = "throws" THEN [outcome |-> "thrown", traces |-> <<>>]
  ELSE [outcome |-> "returned",
        traces |-> IF event.event_type = "content_evaluation"
                   THEN <<sendToOpik_decision(event)>>
                   ELSE <<sendToOpik_event(event)>>]

\* Events that OpikLogSchema accepts: scores in [0, 1], a non-negative integer
\* concept count, decisions, confidence and reason code of their enums, every
\* optional field present or absent.
BaseSendData ==
  [trace_id |-> "trace-1", event_type |-> "content_evaluation",
   content_type |-> "article", content_id |-> "undefined",
   concept_count |-> Fin(4 * Scale), relevance_score |-> Fin(80),
   learning_value_score |-> Fin(80), system_decision |-> "undefined",
   decision |-> "undefined", intervention_policy |-> "undefined",
   decision_confidence |-> "undefined", retrieval_used |-> "undefined",
   retrieved_count |-> Undefined, agent_steps |-> <<>>,
   decision_reason_code |-> "undefined", user_feedback |-> "undefined",
   user_id_hash |-> "undefined"]

SendReasonCodes ==
  {"low_scores", "high_scores", "policy_blocked", "retrieval_bridge_used",
   "insufficient_concepts"}

SendDecisionSamples ==
  {[BaseSendData EXCEPT !.system_decision = sd, !.decision = d,
                        !.relevance_score = r, !.learning_value_score = l,
                        !.concept_count = c, !.intervention_policy = p,
                        !.decision_reason_code = rc, !.retrieval_used = u,
                        !.decision_confidence = cf] :
     sd \in {"undefined", "triggered", "ignored"},
     d \in {"undefined", "triggered", "ignored"},
     r \in {Undefined, Fin(59), Fin(60), Fin(75), Fin(100)},
     l \in {Undefined, Fin(59), Fin(74), Fin(100)},
     c \in {Undefined, Fin(1 * Scale), Fin(2 * Scale), Fin(6 * Scale)},
     p \in {"undefined", "focused", "aggressive"},
     rc \in {"undefined"} \cup SendReasonCodes,
     u \in {"undefined", "true", "false"},
     cf \in {"undefined", "low"}}

SendFeedbackSamples ==
  {[BaseSendData EXCEPT !.event_type = "user_feedback", !.user_feedback = f,
                        !.user_id_hash = h, !.content_type = ct,
                        !.retrieved_count = n] :
     f \in {"undefined", "useful", "not_useful"}, h \in {"undefined", "hash-a"},
     ct \in {"undefined", "video"}, n \in {Undefined, Fin(2 * Scale)}}

SendOff == [outcome |-> "none", traces |-> <<>>]

InitSend ==
  /\ HandlerOff
  /\ relay = RelayOff
  /\ client = ClientOff
  /\ \/ \E d \in SendDecisionSamples \cup SendFeedbackSamples :
          fn = [step |-> "start", data |-> d, opik |-> "ok", sent |-> SendOff]
     \/ \E d \in SendFeedbackSamples \cup {BaseSendData}, o \in {"no_key", "throws"} :
          fn = [step |-> "start", data |-> d, opik |-> o, sent |-> SendOff]

SendToOpik ==
  /\ fn.step = "start"
  /\ fn' = [fn EXCEPT !.step = "sent", !.sent = sendToOpik(fn.data, fn.opik)]
  /\ UNCHANGED <<handlerVars, relay, client>>

NextSend == SendToOpik

SpecSend == InitSend /\ [][NextSend]_vars

(***************************************************************************)
(* The relay endpoints: inputs and handlers (specification SpecRelay)      *)
(***************************************************************************)
\* Request bodies: a plain metrics object, forbidden keys at the top level, in
\* upper case, inside nested objects and inside an array, a key that only
\* contains a forbidden word, and bodies that are no object at all.
RelayJsonSamples ==
  {JObject(<<JEntry("trace_id", JPrim), JEntry("content_id", JPrim),
             JEntry("timestamp", JPrim)>>),
   JObject(<<JEntry("trace_id", JPrim), JEntry("email", JPrim)>>),
   JObject(<<JEntry("trace_id", JPrim),
             [key |-> Key("email", {1}), value |-> JPrim]>>),
   JObject(<<JEntry("trace_id", JPrim),
             JEntry("meta", JObject(<<JEntry("inner",
                      JObject(<<JEntry("user_id", JPrim)>>))>>))>>),
   JObject(<<JEntry("trace_id", JPrim),
             JEntry("agent_steps",
                    JArray(<<JPrim, JObject(<<JEntry("transcript", JNull)>>)>>))>>),
   JObject(<<JEntry("trace_id", JPrim), JEntry("user_id_hash", JPrim),
             JEntry("agent_steps", JArray(<<JPrim, JPrim>>))>>),
   JPrim, JNull}

RelayBodies ==
  {[json |-> j, schema_ok |-> ok, event_type |-> e] :
     j \in RelayJsonSamples, ok \in BOOLEAN,
     e \in {"content_evaluation", "user_feedback"}}
  \ {b \in [json : {JPrim, JNull}, schema_ok : {TRUE},
            event_type : {"content_evaluation", "user_feedback"}] : TRUE}

\* The score field of a grader reply that parsed as JSON, in thousandths:
\* missing, null, a boolean, a number (below 0, in range, above 1, too large
\* for a double), a numeric string, another string.
GradeScoreSamples ==
  {Json("undefined", 0), Json("null", 0), Json("bool", 1), Json("str", 0),
   Json("numstr", 850), Json("huge", 1), Json("huge", -1)} \cup
  {Json("num", n) : n \in {-500, 0, 250, 594, 595, 597, 599, 600, 604, 850, 1000, 1500}}

InitRelay ==
  /\ HandlerOff
  /\ fn = FnOff
  /\ client = ClientOff
  /\ \E ep \in RelayEndpoints, m \in {"POST", "GET"},
        h \in {Unset, Str(""), Str("secret"), Str("wrong")},
        tok \in {Unset, Str(""), Str("secret")}, b \in RelayBodies,
        o \in {"ok", "no_key", "throws"}, l \in {"ok", "fail"},
        g \in GradeScoreSamples :
       /\ (ep # "grade-recall" \/ h # Str("secret") \/ l # "ok")
            => g = Json("num", 850)
       /\ relay = [RelayOff EXCEPT !.step = "start", !.endpoint = ep,
                                   !.req = [method |-> m, header |-> h, body |-> b],
                                   !.env = [RELAY_TOKEN |-> tok, opik |-> o,
                                            llm |-> l, grade |-> g]]

\* What a handler does when a check fails: the error response, and return.
RelayReject(checks) ==
  relay' = [relay EXCEPT !.step = "done", !.res = checks,
                         !.responses = relay.responses + 1]

RelayOk == [status |-> 200, error |-> "none"]

\* Whether a fire-and-forget log helper hands a trace to the Opik SDK: not
\* without a client, and not when the SDK call throws.
RelayLogSends(processEnv) == processEnv.opik = "ok"

\* The traces a fire-and-forget log helper hands to the Opik SDK, by trace name
\* and event type.
RelayLogTrace(processEnv, eventType) ==
  IF RelayLogSends(processEnv)
  THEN <<[name |-> "signal_content_analysis", event_type |-> eventType]>>
  ELSE <<>>

\* The event the opik-log handler hands to sendToOpik.
RelayEvent(body) == [BaseSendData EXCEPT !.event_type = body.event_type]

\* A handler that forwards every accepted event, content_evaluation included.
OpikLogHandler_ForwardsAll ==
  /\ relay.step = "start"
  /\ relay.endpoint = "opik-log"
  /\ LET checks == relayHandlerChecks(relay.req, relay.env) IN
     IF checks # RelayPass THEN RelayReject(checks)
     ELSE relay' = [relay EXCEPT !.step = "sending"]
  /\ UNCHANGED <<handlerVars, fn, client>>

\* api/opik-log.ts handler (lines 364-408): the checks, then a
\* content_evaluation event is answered without being sent, any other event
\* goes to sendToOpik.
OpikLogHandler ==
  /\ relay.step = "start"
  /\ relay.endpoint = "opik-log"
  /\ LET checks == relayHandlerChecks(relay.req, relay.env) IN
     IF checks # RelayPass THEN RelayReject(checks)
     ELSE IF relay.req.body.event_type = "content_evaluation"
     THEN relay' = [relay EXCEPT !.step = "done", !.res = RelayOk,
                                 !.body.ok = TRUE, !.body.skipped = TRUE,
                                 !.responses = relay.responses + 1]
     ELSE relay' = [relay EXCEPT !.step = "sending"]
  /\ UNCHANGED <<handlerVars, fn, client>>

\* A handler that swallows a failure of sendToOpik and answers 200.
OpikLogSent_Swallows ==
  /\ relay.step = "sending"
  /\ LET sending == sendToOpik(RelayEvent(relay.req.body), relay.env.opik) IN
     relay' = [relay EXCEPT
       !.step = "done", !.res = RelayOk, !.body.ok = TRUE,
       !.responses = relay.responses + 1,
       !.effects = relay.effects \cup
                   (IF sending.outcome = "returned" THEN {"telemetry"} ELSE {}),
       !.sent = relay.sent \o
                [i \in 1..Len(sending.traces) |->
                   [name |-> sending.traces[i].name,
                    event_type |-> sending.traces[i].input.event_type]]]
  /\ UNCHANGED <<handlerVars, fn, client>>

\* api/opik-log.ts handler (lines 410-423): sendToOpik returned (200) or
\* threw (the catch block answers 500).
OpikLogSent ==
  /\ relay.step = "sending"
  /\ LET sending == sendToOpik(RelayEvent(relay.req.body), relay.env.opik) IN
     IF sending.outcome = "returned"
     THEN relay' = [relay EXCEPT
            !.step = "done", !.res = RelayOk, !.body.ok = TRUE,
            !.responses = relay.responses + 1,
            !.effects = relay.effects \cup {"telemetry"},
            !.sent = relay.sent \o
                     [i \in 1..Len(sending.traces) |->
                        [name |-> sending.traces[i].name,
                         event_type |-> sending.traces[i].input.event_type]]]
     ELSE relay' = [relay EXCEPT !.step = "done",
                                 !.res = [status |-> 500,
                                          error |-> "Internal server error"],
                                 !.responses = relay.responses + 1]
  /\ UNCHANGED <<handlerVars, fn, client>>

\* api/feedback handler: the checks, persistFeedback, the fire-and-forget
\* logFeedbackToOpik, 200.
FeedbackHandler ==
  /\ relay.step = "start"
  /\ relay.endpoint = "feedback"
  /\ LET checks == relayHandlerChecks(relay.req, relay.env) IN
     IF checks # RelayPass THEN RelayReject(checks)
     ELSE relay' = [relay EXCEPT
            !.step = "done", !.res = RelayOk, !.body.ok = TRUE,
            !.responses = relay.responses + 1,
            !.effects = relay.effects \cup {"persistFeedback"} \cup
                        (IF RelayLogSends(relay.env) THEN {"telemetry"} ELSE {}),
            !.sent = relay.sent \o RelayLogTrace(relay.env, "user_feedback")]
  /\ UNCHANGED <<handlerVars, fn, client>>

\* api/recall handler: the checks, the fire-and-forget logRecallToOpik, 200.
RecallHandler ==
  /\ relay.step = "start"
  /\ relay.endpoint = "recall"
  /\ LET checks == relayHandlerChecks(relay.req, relay.env) IN
     IF checks # RelayPass THEN RelayReject(checks)
     ELSE relay' = [relay EXCEPT
            !.step = "done", !.res = RelayOk, !.body.ok = TRUE,
            !.responses = relay.responses + 1,
            !.effects = relay.effects \cup
                        (IF RelayLogSends(relay.env) THEN {"telemetry"} ELSE {}),
            !.sent = relay.sent \o RelayLogTrace(relay.env, "recall_completed")]
  /\ UNCHANGED <<handlerVars, fn, client>>

\* api/grade-recall handler: the checks, then the LLM call of gradeAnswer.
GradeRecallHandler ==
  /\ relay.step = "start"
  /\ relay.endpoint = "grade-recall"
  /\ LET checks == relayHandlerChecks(relay.req, relay.env) IN
     IF checks # RelayPass THEN RelayReject(checks)
     ELSE relay' = [relay EXCEPT !.step = "grading",
                                 !.effects = relay.effects \cup {"llm"}]
  /\ UNCHANGED <<handlerVars, fn, client>>

\* Grader scores are kept in thousandths.
GradeScale == 1000

CORRECTNESS_THRESHOLD == Fin(600)

\* Number(parsed.score), in thousandths.
grade_Number(j) ==
  CASE j.t = "undefined" -> NaN
    [] j.t = "null" -> Fin(0)
    [] j.t = "bool" -> Fin(j.v * GradeScale)
    [] j.t = "num" -> Fin(j.v)
    [] j.t = "numstr" -> Fin(j.v)
    [] j.t = "huge" -> IF j.v > 0 THEN PInf ELSE NInf
    [] OTHER -> NaN

\* gradeAnswer, line 320: Math.max(0, Math.min(1, Number(parsed.score) ?? 0)).
\* Number never returns null or undefined, so ?? never takes its right side.
gradeAnswer_score(parsed_score) ==
  MathMax(Fin(0), MathMin(Fin(GradeScale),
                          NullishNum(grade_Number(parsed_score), Fin(0))))

\* Math.round(score * 100) / 100, in thousandths: halves round up.
RoundToHundredths(x) ==
  IF IsFinite(x) THEN Fin(((x.v + 5) \div 10) * 10) ELSE x

\* JSON.stringify of a number: NaN and the infinities are written as null.
JsonNumber(x) == IF IsFinite(x) THEN x ELSE [k |-> "null", v |-> 0]

\* api/grade-recall handler: gradeAnswer returned (the fire-and-forget
\* logGradeToOpik, 200) or threw (500).
GradeRecallGraded ==
  /\ relay.step = "grading"
  /\ IF relay.env.llm = "ok"
     THEN LET score == gradeAnswer_score(relay.env.grade)
              correct == JsGe(score, CORRECTNESS_THRESHOLD)
          IN relay' = [relay EXCEPT
               !.step = "done", !.res = RelayOk,
               !.body = [ok |-> TRUE, skipped |-> FALSE,
                         score |-> JsonNumber(RoundToHundredths(score)),
                         correct |-> correct],
               !.responses = relay.responses + 1,
               !.effects = relay.effects \cup
                           (IF RelayLogSends(relay.env) THEN {"telemetry"} ELSE {}),
               !.sent = relay.sent \o
                        RelayLogTrace(relay.env, "open_ended_recall_graded")]
     ELSE relay' = [relay EXCEPT !.step = "done",
                                 !.res = [status |-> 500, error |-> "Grading failed"],
                                 !.responses = relay.responses + 1]
  /\ UNCHANGED <<handlerVars, fn, client>>

NextRelay ==
  \/ OpikLogHandler
  \/ OpikLogSent
  \/ FeedbackHandler
  \/ RecallHandler
  \/ GradeRecallHandler
  \/ GradeRecallGraded

SpecRelay == InitRelay /\ [][NextRelay]_vars

(***************************************************************************)
(* Claims about the pure functions (checked under SpecFn)                  *)
(***************************************************************************)
\* x >= t and x < t as the claims read them, on the extended number line
\* (NaN satisfies neither).
ClaimAtLeast(x, t) == x.k = "pinf" \/ (x.k = "fin" /\ x.v >= t.v)

ClaimBelow(x, t) == x.k = "ninf" \/ (x.k = "fin" /\ x.v < t.v)

ClaimHigh(f, t) ==
  /\ ClaimAtLeast(f.relevance, t.highRelevance)
  /\ ClaimAtLeast(f.learning, t.highLearning)
  /\ ClaimAtLeast(f.conceptCount, t.highConceptCount)

ClaimLow(f, t) ==
  \/ ClaimBelow(f.relevance, t.lowRelevance)
  \/ ClaimBelow(f.learning, t.lowLearning)
  \/ ClaimBelow(f.conceptCount, t.lowConceptCount)

ClaimConfidence(f, t) ==
  IF ClaimHigh(f, t) THEN "high" ELSE IF ClaimLow(f, t) THEN "low" ELSE "borderline"

ClaimReason(f, t) ==
  IF f.retrievalUsed /\ f.decision = "triggered" THEN "retrieval_bridge_used"
  ELSE IF ClaimBelow(f.conceptCount, t.minConceptCount) THEN "insufficient_concepts"
  ELSE IF f.decision = "triggered" THEN "high_scores"
  ELSE IF ClaimBelow(f.relevance, t.trigger) \/ ClaimBelow(f.learning, t.trigger)
  THEN "low_scores"
  ELSE "policy_blocked"

ReasonCodes ==
  {"low_scores", "high_scores", "policy_blocked", "retrieval_bridge_used",
   "insufficient_concepts"}

\* C2: for every (relevance, learning, conceptCount, policy) both copies of the
\* confidence classifier return high iff all three high bands are met, otherwise
\* low iff any low band is missed, otherwise borderline.
C2_ConfidenceRule ==
  fn.step = "classified" =>
    /\ fn.cls.confidence = ClaimConfidence(fn, POLICY_THRESHOLDS(fn.policy))
    /\ fn.cls.relayConfidence = ClaimConfidence(fn, RELAY_POLICY_THRESHOLDS(fn.policy))

\* C2 witness: two high bands are met, the concept count misses the low band,
\* and the classifier answered low.
C2_Witness ==
  /\ fn.step = "classified"
  /\ fn.policy = "focused"
  /\ fn.relevance = Fin(85)
  /\ fn.learning = Fin(100)
  /\ fn.conceptCount = Fin(300)
  /\ fn.cls.confidence = "low"

\* C3: for every input both copies of the reason-code resolver return the first
\* matching rule of the fixed order retrieval_bridge_used, insufficient_concepts,
\* high_scores, low_scores, policy_blocked, and always one of the five codes.
C3_ReasonOrder ==
  fn.step = "classified" =>
    /\ fn.cls.reason = ClaimReason(fn, POLICY_THRESHOLDS(fn.policy))
    /\ fn.cls.relayReason = ClaimReason(fn, RELAY_POLICY_THRESHOLDS(fn.policy))
    /\ fn.cls.reason \in ReasonCodes
    /\ fn.cls.relayReason \in ReasonCodes

\* C3 witness: an ignored decision with one score below the trigger and enough
\* concepts resolved to low_scores.
C3_Witness ==
  /\ fn.step = "classified"
  /\ fn.policy = "focused"
  /\ fn.decision = "ignored"
  /\ fn.relevance = Fin(85)
  /\ fn.learning = Fin(74)
  /\ fn.conceptCount = Fin(400)
  /\ fn.cls.reason = "low_scores"

\* C4: whenever retrievalUsed is true and the decision is triggered, the reason
\* code is retrieval_bridge_used, whatever the scores, the concept count and the
\* policy are.
C4_RetrievalPrecedence ==
  (fn.step = "classified" /\ fn.retrievalUsed /\ fn.decision = "triggered") =>
    /\ fn.cls.reason = "retrieval_bridge_used"
    /\ fn.cls.relayReason = "retrieval_bridge_used"

\* C4 witness: retrieval used, triggered, and a concept count below
\* minConceptCount, which would otherwise give insufficient_concepts.
C4_Witness ==
  /\ fn.step = "classified"
  /\ fn.retrievalUsed
  /\ fn.decision = "triggered"
  /\ fn.policy = "focused"
  /\ fn.conceptCount = Fin(300)
  /\ fn.cls.reason = "retrieval_bridge_used"

\* C7: score normalization is total: for every numeric input the normalized
\* relevance and learning scores are finite values in [0,1] and the normalized
\* concept count is a finite integer >= 0.
C7_NormalizationTotal ==
  fn.step = "logged" =>
    /\ IsFinite(fn.input.relevance_score)
    /\ fn.input.relevance_score.v \in 0..Scale
    /\ IsFinite(fn.input.learning_value_score)
    /\ fn.input.learning_value_score.v \in 0..Scale
    /\ IsFinite(fn.input.concept_count)
    /\ fn.input.concept_count.v >= 0
    /\ fn.input.concept_count.v % Scale = 0

\* low < borderline < high
ClaimConfidenceRank(c) ==
  CASE c = "low" -> 0 [] c = "borderline" -> 1 [] c = "high" -> 2

\* b is a at least as large as a (neither is NaN).
ClaimNotBelow(b, a) ==
  /\ a.k # "nan"
  /\ b.k # "nan"
  /\ \/ a.k = "ninf"
     \/ b.k = "pinf"
     \/ (a.k = "fin" /\ b.k = "fin" /\ b.v >= a.v)

\* C19: confidence is monotone.  For a fixed policy, raising any one of
\* relevance, learning or conceptCount with the other two held fixed never
\* lowers the confidence label in the order low < borderline < high.
C19_ConfidenceMonotone ==
  (fn.step = "classified") =>
    LET base == ClaimConfidenceRank(fn.cls.confidence) IN
    /\ \A x \in ScoreSamples :
         ClaimNotBelow(x, fn.relevance) =>
           ClaimConfidenceRank(normalizeDecisionConfidence(
             x, fn.learning, fn.conceptCount, fn.policy)) >= base
    /\ \A x \in ScoreSamples :
         ClaimNotBelow(x, fn.learning) =>
           ClaimConfidenceRank(normalizeDecisionConfidence(
             fn.relevance, x, fn.conceptCount, fn.policy)) >= base
    /\ \A x \in CountSamples :
         ClaimNotBelow(x, fn.conceptCount) =>
           ClaimConfidenceRank(normalizeDecisionConfidence(
             fn.relevance, fn.learning, x, fn.policy)) >= base

\* C19 witness: focused, relevance and learning 0.85 with 4 concepts is
\* borderline, and raising the count to 6 gives high, lowering it to 3 gives low.
C19_Witness ==
  /\ fn.step = "classified"
  /\ fn.policy = "focused"
  /\ fn.relevance = Fin(85)
  /\ fn.learning = Fin(85)
  /\ fn.conceptCount = Fin(400)
  /\ fn.cls.confidence = "borderline"
  /\ normalizeDecisionConfidence(Fin(85), Fin(85), Fin(600), "focused") = "high"
  /\ normalizeDecisionConfidence(Fin(85), Fin(85), Fin(300), "focused") = "low"

ClaimTableOrdered(t) ==
  /\ t.lowRelevance.v <= t.trigger.v
  /\ t.trigger.v <= t.highRelevance.v
  /\ t.lowLearning.v <= t.trigger.v
  /\ t.trigger.v <= t.highLearning.v
  /\ t.minConceptCount.v <= t.lowConceptCount.v
  /\ t.lowConceptCount.v <= t.highConceptCount.v
  /\ \A k \in DOMAIN t : t[k].k = "fin"

ClaimClamped(x) ==
  IF x.k # "fin" THEN 0 ELSE IF x.v < 0 THEN 0 ELSE IF x.v > 100 THEN 100 ELSE x.v

\* trigger(focused) = 0.75, trigger(aggressive) = 0.6
ClaimTrigger(policy) == IF policy = "aggressive" THEN 60 ELSE 75

ClaimDecision(parsed, policy) ==
  IF /\ ClaimClamped(Number(parsed.relevance_score)) >= ClaimTrigger(policy)
     /\ ClaimClamped(Number(parsed.learning_value_score)) >= ClaimTrigger(policy)
  THEN "triggered" ELSE "ignored"

LoggedFor(policy, relevance, learning, count) ==
  /\ Len(telemetry) = 1
  /\ telemetry[1].input.intervention_policy = policy
  /\ telemetry[1].input.relevance_score = Fin(relevance)
  /\ telemetry[1].input.learning_value_score = Fin(learning)
  /\ telemetry[1].input.concept_count = Fin(count * Scale)
  /\ ~telemetry[1].input.retrieval_used

LoggedOutcome(decision, confidence, reason) ==
  /\ analysis.decision = decision
  /\ telemetry[1].input.system_decision = decision
  /\ telemetry[1].input.decision_confidence = confidence
  /\ telemetry[1].input.decision_reason_code = reason

\* C5 as stated: focused, relevance 0.8, learning 0.75, 7 concepts, no retrieval
\* gives triggered, confidence high, reason high_scores.
C5_Original ==
  LoggedFor("focused", 80, 75, 7) => LoggedOutcome("triggered", "high", "high_scores")

\* C5 amended: the same inputs give triggered, confidence borderline (both scores
\* are below highRelevance = highLearning = 0.85), reason high_scores.
C5_Amended ==
  LoggedFor("focused", 80, 75, 7) => LoggedOutcome("triggered", "borderline", "high_scores")

\* C5 witness: the request with these inputs was analyzed and logged.
C5_Witness ==
  /\ LoggedFor("focused", 80, 75, 7)
  /\ LoggedOutcome("triggered", "borderline", "high_scores")

\* C6 as stated: focused, relevance 0.6, learning 0.6, 3 concepts, no retrieval
\* gives ignored, confidence low, reason low_scores.
C6_Original ==
  LoggedFor("focused", 60, 60, 3) => LoggedOutcome("ignored", "low", "low_scores")

\* C6 amended: the same inputs give ignored, confidence low, reason
\* insufficient_concepts (3 < minConceptCount = 4 is tested before the scores).
C6_Amended ==
  LoggedFor("focused", 60, 60, 3) => LoggedOutcome("ignored", "low", "insufficient_concepts")

\* C6 witness: the request with these inputs was analyzed and logged.
C6_Witness ==
  /\ LoggedFor("focused", 60, 60, 3)
  /\ LoggedOutcome("ignored", "low", "insufficient_concepts")

ClaimMode == handler_normalizeLearningMode(data.learning_mode)

QuestionTypes(qs) == [i \in 1..Len(qs) |-> qs[i].type]

\* C8: a 200 response carries exactly openTarget + mcqTarget = 4 questions when
\* the decision is triggered, whatever the candidates were and whether or not a
\* bridge question was applied, and none when it is ignored.
C8_QuestionCount ==
  res.status = 200 =>
    IF res.body.decision = "triggered"
    THEN /\ Len(res.body.recall_questions) = 4
         /\ Len(res.body.recall_questions) =
              questionPlanForMode(ClaimMode).openTarget
              + questionPlanForMode(ClaimMode).mcqTarget
    ELSE Len(res.body.recall_questions) = 0

\* C8 witness: nine raw candidates, a bridge question applied, four questions
\* returned.
C8_Witness ==
  /\ res.status = 200
  /\ res.body.retrieval_used
  /\ Len(env.parsed.recall_questions) >= 9
  /\ Len(res.body.recall_questions) = 4

\* C9: for a triggered decision the question types follow the plan:
\* interview_prep open,open,open,mcq; assessment_exam_prep mcq,mcq,mcq,open;
\* general_learning open,mcq,open,mcq; also when a bridge question was applied.
C9_QuestionOrder ==
  (res.status = 200 /\ res.body.decision = "triggered") =>
    QuestionTypes(res.body.recall_questions) =
      CASE ClaimMode = "interview_prep" -> <<"open", "open", "open", "mcq">>
        [] ClaimMode = "assessment_exam_prep" -> <<"mcq", "mcq", "mcq", "open">>
        [] OTHER -> <<"open", "mcq", "open", "mcq">>

\* C9 witness: an exam-prep request, no candidates from the model, a bridge
\* question applied, and the mcq-first shape returned.
C9_Witness ==
  /\ res.status = 200
  /\ res.body.retrieval_used
  /\ ClaimMode = "assessment_exam_prep"
  /\ env.parsed.recall_questions = <<>>
  /\ QuestionTypes(res.body.recall_questions) = <<"mcq", "mcq", "mcq", "open">>
  /\ res.body.recall_questions[4].src = "bridge"

UnrecognizedPolicy ==
  /\ req.method = "POST"
  /\ req.body.fields_ok
  /\ req.body.intervention_policy \notin {"undefined", "focused", "aggressive"}

\* C10 as stated: a request whose intervention policy is an unrecognized string
\* is processed with the focused thresholds and does not end in an error
\* response because of the policy value.
C10_Original ==
  (pc = "done" /\ UnrecognizedPolicy /\ env.fetch = "ok" /\ env.model = "ok") =>
    /\ res.status = 200
    /\ res.body.decision = ClaimDecision(env.parsed, "focused")

\* C10 amended: an unrecognized intervention policy string is rejected by the
\* request schema with 400 before content fetch, analysis and telemetry; only a
\* missing policy is processed, with the focused thresholds.
C10_Amended ==
  /\ (pc = "done" /\ UnrecognizedPolicy) =>
       /\ res.status = 400
       /\ res.error = "Invalid request schema"
       /\ ~analysis.ok
       /\ telemetry = <<>>
  /\ (analysis.ok /\ req.body.intervention_policy = "undefined") =>
       /\ data.intervention_policy = "focused"
       /\ analysis.decision = ClaimDecision(env.parsed, "focused")

\* C10 witness: a well-formed POST with the policy "lenient" was answered 400.
C10_Witness ==
  /\ pc = "done"
  /\ UnrecognizedPolicy
  /\ req.body.intervention_policy = "lenient"
  /\ res.status = 400

(***************************************************************************)
(* Claims about the response, the collaborators and the telemetry record   *)
(* of /api/analyze (checked under Spec)                                    *)
(***************************************************************************)
\* The keys of the decision record as the specification serializes it.
DecisionRecordKeys ==
  {"system_decision", "decision_confidence", "decision_reason_code",
   "relevance_score", "learning_value_score", "concept_count",
   "intervention_policy", "retrieval_used", "retrieved_count"}

\* C11 as stated: every successful /api/analyze response carries all nine keys
\* of the decision record.
C11_Original ==
  (pc = "done" /\ res.status = 200) => DecisionRecordKeys \subseteq DOMAIN res.body

\* C11: every successful /api/analyze response carries exactly trace_id,
\* concepts, relevance_score, learning_value_score, decision, recall_questions,
\* related_items, retrieval_used and retrieved_count; the decision is under the
\* key decision, and decision_confidence, decision_reason_code, concept_count
\* and intervention_policy go to telemetry only.
C11_Amended ==
  (pc = "done" /\ res.status = 200) =>
    /\ DOMAIN res.body =
         {"trace_id", "concepts", "relevance_score", "learning_value_score",
          "decision", "recall_questions", "related_items", "retrieval_used",
          "retrieved_count"}
    /\ res.body.decision = analysis.decision
    /\ res.body.relevance_score = analysis.relevance_score
    /\ res.body.learning_value_score = analysis.learning_value_score
    /\ res.body.retrieval_used = retrievalUsed
    /\ res.body.retrieved_count = Len(relatedItems)
    /\ \A i \in 1..Len(telemetry) :
         {"decision_confidence", "decision_reason_code", "concept_count",
          "intervention_policy"} \subseteq DOMAIN telemetry[i].input

\* C11 witness: a successful response to a triggered analysis that used
\* retrieval, with its telemetry record logged.
C11_Witness ==
  /\ pc = "done"
  /\ res.status = 200
  /\ res.body.decision = "triggered"
  /\ res.body.retrieval_used
  /\ res.body.retrieved_count = 2
  /\ Len(telemetry) = 1
  /\ telemetry[1].input.decision_reason_code = "retrieval_bridge_used"

\* The body of the 200 response as the analysis, the retrieval and the bridge
\* step left it; nothing in it comes from the telemetry step.
ClaimResponseBody ==
  [trace_id |-> env.traceId,
   concepts |-> analysis.concepts,
   relevance_score |-> analysis.relevance_score,
   learning_value_score |-> analysis.learning_value_score,
   decision |-> analysis.decision,
   recall_questions |-> recallQuestions,
   related_items |-> relatedItems,
   retrieval_used |-> retrievalUsed,
   retrieved_count |-> Len(relatedItems)]

\* C12: once content fetch and analysis have succeeded, the telemetry step can
\* always be left (whether the send succeeded, threw, rejected late or never
\* completes), the response is the 200 with the body built from the analysis
\* whatever the telemetry outcome was, exactly one response is written, and no
\* rejection is left unhandled.
C12_TelemetryNeverAffectsResponse ==
  /\ (pc = "log") => ENABLED LogToOpik
  /\ (pc = "respond") => (res = NoResponse /\ responses = 0)
  /\ (pc = "done" /\ analysis.ok) =>
       /\ res.status = 200
       /\ res.error = "none"
       /\ res.body = ClaimResponseBody
       /\ responses = 1
  /\ ~unhandled

\* C12 witness: the telemetry send never completed and the caller got the 200
\* with the triggered analysis.
C12_Witness ==
  /\ pc = "done"
  /\ env.opik = "hang"
  /\ "logToOpik" \in calls
  /\ res.status = 200
  /\ res.body.decision = "triggered"
  /\ res.body.trace_id = "trace-2"

\* C13: /api/analyze fails closed.  A content fetch that failed, timed out or
\* gave empty text is answered 400 with no model call and no telemetry; an
\* analysis call that failed or timed out is answered 500 with no telemetry; a
\* 200 is sent only after both steps succeeded.
C13_FailClosed ==
  /\ ("fetchContent" \in calls /\ env.fetch # "ok") =>
       /\ pc = "done"
       /\ res.status = 400
       /\ "analyzeContent" \notin calls
       /\ "generateBridgeQuestion" \notin calls
       /\ "logToOpik" \notin calls
       /\ telemetry = <<>>
  /\ ("analyzeContent" \in calls /\ env.model # "ok") =>
       /\ pc = "done"
       /\ res.status = 500
       /\ "logToOpik" \notin calls
       /\ telemetry = <<>>
  /\ (res.status = 200) =>
       /\ env.fetch = "ok"
       /\ env.model = "ok"
       /\ {"fetchContent", "analyzeContent"} \subseteq calls
       /\ analysis.ok

\* C13 witness: the fetch returned empty text and the request ended with 400
\* after the fetch alone.
C13_Witness ==
  /\ pc = "done"
  /\ env.fetch = "empty"
  /\ res.status = 400
  /\ res.error = "No content extracted from URL"
  /\ calls = {"fetchContent"}

\* C14: every request gets exactly one response even if a collaborator never
\* completes: at most one response is ever written, a finished request has
\* exactly one, and an unfinished request can always take its next step (no
\* await on a collaborator blocks it).
C14_OneResponseNoBlockedAwait ==
  /\ responses <= 1
  /\ (pc = "done") => responses = 1
  /\ (pc # "done") => ENABLED Next

(***************************************************************************)
(* Claims about the relay endpoints (checked under SpecRelay)              *)
(***************************************************************************)
\* Every key of a JSON value, at any depth of objects and arrays.
RECURSIVE ClaimKeysOf(_)
ClaimKeysOf(j) ==
  {j.entries[i].key : i \in 1..Len(j.entries)}
  \cup UNION {ClaimKeysOf(j.entries[i].value) : i \in 1..Len(j.entries)}
  \cup UNION {ClaimKeysOf(j.items[i]) : i \in 1..Len(j.items)}

\* The body holds a forbidden key, compared case-insensitively.
ClaimHasForbiddenKey(j) ==
  \E k \in ClaimKeysOf(j) : k.text \in FORBIDDEN_FIELDS

ClaimAuthorized ==
  /\ relay.env.RELAY_TOKEN.set
  /\ relay.env.RELAY_TOKEN.v # ""
  /\ relay.req.header = relay.env.RELAY_TOKEN

\* C15 as stated: on every relay endpoint a POST body holding a forbidden key
\* at any depth is rejected with 400 and nothing is persisted, graded or logged.
C15_Original ==
  (/\ relay.step = "done"
   /\ relay.req.method = "POST"
   /\ ClaimHasForbiddenKey(relay.req.body.json)) =>
    (relay.res.status = 400 /\ relay.effects = {})

\* C15: on every relay endpoint a POST body holding a forbidden key at any
\* depth of objects and arrays (compared case-insensitively) is never accepted
\* and causes no persistence, LLM call or telemetry; it is rejected with 400
\* when the relay token is valid, and with 401 (before the privacy scan) when
\* the token is missing, wrong or not configured.
C15_Amended ==
  (/\ relay.step # "off"
   /\ relay.req.method = "POST"
   /\ ClaimHasForbiddenKey(relay.req.body.json)) =>
    /\ relay.effects = {}
    /\ relay.step \in {"start", "done"}
    /\ (relay.step = "done") =>
         /\ relay.responses = 1
         /\ relay.res.status = (IF ClaimAuthorized THEN 400 ELSE 401)
         /\ ClaimAuthorized => relay.res.error = "forbidden fields"

\* C15 witness: an authorized feedback POST with the key Email (upper-case E)
\* and a body the schema accepts was rejected with 400 and nothing persisted.
C15_Witness ==
  /\ relay.step = "done"
  /\ relay.endpoint = "feedback"
  /\ relay.req.method = "POST"
  /\ ClaimAuthorized
  /\ relay.req.body.schema_ok
  /\ \E k \in ClaimKeysOf(relay.req.body.json) : k = Key("email", {1})
  /\ relay.res.status = 400
  /\ relay.effects = {}

\* The response the claimed order of checks gives a request.
ClaimRelayOutcome ==
  IF relay.req.method # "POST" THEN 405
  ELSE IF ~ClaimAuthorized THEN 401
  ELSE IF ClaimHasForbiddenKey(relay.req.body.json) THEN 400
  ELSE IF ~relay.req.body.schema_ok THEN 400
  ELSE 0

\* C16: on every relay endpoint a POST whose x-signal-relay-token differs from
\* the configured RELAY_TOKEN, or any POST when RELAY_TOKEN is not configured,
\* is answered 401 with no persistence, LLM call or telemetry; the checks run
\* in the order method (405), token (401), privacy (400), schema (400), and
\* side effects occur only after all four pass.
C16_TokenFailClosedCheckOrder ==
  /\ (ClaimRelayOutcome # 0) =>
       /\ relay.effects = {}
       /\ relay.step \in {"start", "done"}
       /\ (relay.step = "done") =>
            (relay.res.status = ClaimRelayOutcome /\ relay.responses = 1)
  /\ (relay.step # "off" /\ relay.effects # {}) => ClaimRelayOutcome = 0
  /\ (relay.step = "done" /\ ClaimRelayOutcome = 0) => relay.res.status \in {200, 500}

\* C16 witness: RELAY_TOKEN is not configured, the request sends no token and a
\* body with a forbidden key, and the grade-recall endpoint answered 401 with no
\* LLM call.
C16_Witness ==
  /\ relay.step = "done"
  /\ relay.endpoint = "grade-recall"
  /\ relay.req.method = "POST"
  /\ relay.env.RELAY_TOKEN = Unset
  /\ relay.req.header = Unset
  /\ ClaimHasForbiddenKey(relay.req.body.json)
  /\ relay.res.status = 401
  /\ relay.effects = {}

\* The values the claim lets the telemetry record depend on, read from the
\* state of the request: scores, decision, concept count, question count,
\* policy, content type, retrieval counters, agent steps, trace id and user id
\* hash.  No content text, goal description, concept string or question text.
ClaimPublicValues ==
  [relevance |-> analysis.relevance_score,
   learning |-> analysis.learning_value_score,
   decision |-> analysis.decision,
   conceptCount |-> Fin(Len(analysis.concepts) * Scale),
   questionCount |-> Len(recallQuestions),
   policy |-> data.intervention_policy,
   contentType |-> IF data.content_url = "youtube" THEN "video" ELSE "article",
   retrievalUsed |-> retrievalUsed,
   retrievedCount |-> Len(relatedItems),
   topOverlapScore |-> IF Len(relatedItems) > 0 THEN relatedItems[1].overlap_score ELSE 0,
   overlapConceptsCount |->
     IF Len(relatedItems) > 0 THEN Len(relatedItems[1].overlap_concepts) ELSE 0,
   traceId |-> env.traceId,
   userIdHash |-> data.user_id_hash]

\* The telemetry record as a function of those values alone.
ClaimTelemetryOf(p) ==
  LET t == IF p.policy = "aggressive"
           THEN [trigger |-> Fin(60), highRelevance |-> Fin(75), highLearning |-> Fin(75),
                 highConceptCount |-> Fin(400), lowRelevance |-> Fin(55),
                 lowLearning |-> Fin(55), lowConceptCount |-> Fin(200),
                 minConceptCount |-> Fin(200)]
           ELSE [trigger |-> Fin(75), highRelevance |-> Fin(85), highLearning |-> Fin(85),
                 highConceptCount |-> Fin(600), lowRelevance |-> Fin(65),
                 lowLearning |-> Fin(65), lowConceptCount |-> Fin(400),
                 minConceptCount |-> Fin(400)]
      reason == ClaimReason(p, t)
  IN [input |->
        [event_type |-> "content_evaluation",
         content_type |-> p.contentType,
         content_dot_type |-> p.contentType,
         content_id |-> "null",
         system_decision |-> p.decision,
         relevance_score |-> Fin(ClaimClamped(p.relevance)),
         learning_value_score |-> Fin(ClaimClamped(p.learning)),
         concept_count |-> p.conceptCount,
         intervention_policy |-> p.policy,
         decision_confidence |-> ClaimConfidence(p, t),
         retrieval_used |-> p.retrievalUsed,
         retrieved_count |-> Fin(p.retrievedCount * Scale),
         agent_steps |-> IF p.retrievalUsed
                         THEN <<"retrieve_related", "generate_bridge_question">>
                         ELSE <<>>,
         decision_reason_code |-> reason],
      output |-> [system_decision |-> p.decision, decision_reason_code |-> reason],
      signal_trace_id |-> p.traceId,
      user_id_hash |-> p.userIdHash,
      top_overlap_score |-> Fin(IF p.topOverlapScore >= 1 THEN Scale ELSE 0),
      overlap_concepts_count |-> Fin(p.overlapConceptsCount * Scale),
      triggered |-> p.decision = "triggered",
      threshold |-> t.trigger,
      questions_span |-> p.decision = "triggered" /\ p.questionCount > 0,
      questions_count |-> p.questionCount]

\* C17: the telemetry record of /api/analyze is a function only of scores,
\* decision, concept count, question count, policy, content type, retrieval
\* counters, agent steps, trace id and user id hash: every record sent equals
\* that function of those values, so requests that agree on them send the same
\* record whatever the content text, the goal description, the concept strings
\* and the question texts are.
C17_TelemetryOnlyPublicValues ==
  \A i \in 1..Len(telemetry) : telemetry[i] = ClaimTelemetryOf(ClaimPublicValues)

\* C17 witness: a request with the second content text and goal description,
\* a video URL, extracted concepts and generated questions logged the record
\* that the first text and goal give.
C17_Witness ==
  /\ pc = "done"
  /\ env.content = "text-b"
  /\ data.goal_description = "goal-b"
  /\ data.content_url = "youtube"
  /\ Len(analysis.concepts) = 3
  /\ Len(recallQuestions) = 4
  /\ Len(telemetry) = 1
  /\ telemetry[1].input.content_type = "video"
  /\ telemetry[1].signal_trace_id = "trace-1"
  /\ telemetry[1].user_id_hash = "hash-a"
  /\ telemetry[1].questions_count = 4

\* The keys of the decision input logToOpik hands to the trace and to the
\* decide_action span ('content.type' is written content_dot_type).
ClaimDecisionInputKeys ==
  {"event_type", "content_type", "content_dot_type", "content_id",
   "system_decision", "relevance_score", "learning_value_score", "concept_count",
   "intervention_policy", "decision_confidence", "retrieval_used",
   "retrieved_count", "agent_steps", "decision_reason_code"}

ClaimCandidateIds(raw, t, cap) ==
  {i \in 1..Len(raw) :
     /\ IsValidQuestion(raw[i])
     /\ raw[i].type = t
     /\ Cardinality({j \in 1..i : IsValidQuestion(raw[j])}) <= cap}

\* The questions of type t in qs are the first min(target, |ids|) candidates of
\* ids in their original order, followed by fallbacks only.
ClaimCandidatesBeforeFallbacks(qs, t, target, ids) ==
  LET emitted == SelectSeq(qs, LAMBDA q : q.type = t)
      n == IF Cardinality(ids) < target THEN Cardinality(ids) ELSE target
  IN /\ Len(emitted) = target
     /\ \A k \in 1..n :
          /\ emitted[k].src = "model"
          /\ emitted[k].id \in ids
          /\ Cardinality({j \in ids : j < emitted[k].id}) = k - 1
     /\ \A k \in (n + 1)..target : emitted[k].src = "fallback"

ClaimPlan == questionPlanForMode(ClaimMode)

\* C21 as stated: after an analysis with a triggered decision, the open
\* questions are the first min(openTarget, number of validated open candidates
\* of the model's reply) open candidates in their original order, then
\* fallbacks; likewise for mcq.  No fallback of a type appears while a
\* validated candidate of that type supplied by the model is unused.
C21_Original ==
  (analysis.ok /\ analysis.decision = "triggered") =>
    /\ ClaimCandidatesBeforeFallbacks(analysis.recall_questions, "open",
         ClaimPlan.openTarget,
         ClaimCandidateIds(env.parsed.recall_questions, "open",
                           Len(env.parsed.recall_questions)))
    /\ ClaimCandidatesBeforeFallbacks(analysis.recall_questions, "mcq",
         ClaimPlan.mcqTarget,
         ClaimCandidateIds(env.parsed.recall_questions, "mcq",
                           Len(env.parsed.recall_questions)))

\* C21 amended: the same, with the candidates of each type taken from the
\* first 8 validated candidates of the reply, which is what the enforcer is
\* handed; a validated candidate after the eighth is never used.
C21_Amended ==
  (analysis.ok /\ analysis.decision = "triggered") =>
    /\ ClaimCandidatesBeforeFallbacks(analysis.recall_questions, "open",
         ClaimPlan.openTarget,
         ClaimCandidateIds(env.parsed.recall_questions, "open", 8))
    /\ ClaimCandidatesBeforeFallbacks(analysis.recall_questions, "mcq",
         ClaimPlan.mcqTarget,
         ClaimCandidateIds(env.parsed.recall_questions, "mcq", 8))

\* C21 witness: the reply holds eight valid open candidates and then a valid
\* mcq; the emitted mcq questions are all fallbacks and the open questions are
\* the first candidates of the reply.
C21_Witness ==
  /\ analysis.ok /\ analysis.decision = "triggered"
  /\ Len(env.parsed.recall_questions) = 9
  /\ \A i \in 1..8 : env.parsed.recall_questions[i] = RawOpen
  /\ env.parsed.recall_questions[9] = RawMcq
  /\ \A i \in 1..Len(analysis.recall_questions) :
       analysis.recall_questions[i].type = "mcq"
         => analysis.recall_questions[i].src = "fallback"
  /\ \E i \in 1..Len(analysis.recall_questions) :
       analysis.recall_questions[i].src = "model" /\ analysis.recall_questions[i].id = 1

\* C21 second witness: a pool that is short is used before the fallbacks.
C21_WitnessShortPool ==
  /\ analysis.ok /\ analysis.decision = "triggered"
  /\ env.parsed.recall_questions = <<RawMcq, RawOpen>>
  /\ \E i, j \in 1..Len(analysis.recall_questions) :
       /\ analysis.recall_questions[i].type = "open"
       /\ analysis.recall_questions[j].type = "open"
       /\ analysis.recall_questions[i].src = "model"
       /\ analysis.recall_questions[j].src = "fallback"

(***************************************************************************)
(* Claims about sendToOpik (specification SpecSend)                        *)
(***************************************************************************)
ClaimSentDecision ==
  /\ fn.step = "sent"
  /\ fn.sent.outcome = "returned"
  /\ fn.data.event_type = "content_evaluation"

\* The decision the relay's thresholds give for the event's scores.
ClaimScoreDecision(event) ==
  LET trigger == IF event.intervention_policy = "aggressive" THEN 60 ELSE 75
      score(x) == IF x.k = "undefined" THEN 0 ELSE x.v
  IN IF score(event.relevance_score) >= trigger
        /\ score(event.learning_value_score) >= trigger
     THEN "triggered" ELSE "ignored"

\* C22: in sendToOpik for a content_evaluation event, the logged
\* system_decision is the supplied system_decision when there is one, else the
\* supplied legacy decision when there is one, whatever the scores imply, and
\* is computed from the scores and the policy's trigger threshold only when
\* neither is supplied.
C22_ExplicitDecisionWins ==
  ClaimSentDecision =>
    LET logged == fn.sent.traces[1] IN
    /\ logged.input.system_decision = logged.output.system_decision
    /\ logged.input.system_decision =
         IF fn.data.system_decision # "undefined" THEN fn.data.system_decision
         ELSE IF fn.data.decision # "undefined" THEN fn.data.decision
         ELSE ClaimScoreDecision(fn.data)

\* C22 witness: scores below the trigger, a legacy decision "ignored" and a
\* system_decision "triggered": "triggered" is logged.
C22_Witness ==
  /\ ClaimSentDecision
  /\ fn.data.system_decision = "triggered"
  /\ fn.data.decision = "ignored"
  /\ ClaimScoreDecision(fn.data) = "ignored"
  /\ fn.sent.traces[1].input.system_decision = "triggered"

\* C22 second witness: no decision supplied, the scores decide.
C22_WitnessComputed ==
  /\ ClaimSentDecision
  /\ fn.data.system_decision = "undefined"
  /\ fn.data.decision = "undefined"
  /\ fn.data.intervention_policy = "aggressive"
  /\ fn.data.relevance_score = Fin(60)
  /\ fn.sent.traces[1].input.system_decision = "triggered"

C24_TelemetryAgreesWithResponse ==
  (pc = "done" /\ res.status = 200) =>
    \A i \in 1..Len(telemetry) :
      LET input == telemetry[i].input IN
      /\ input.system_decision = res.body.decision
      /\ telemetry[i].output.system_decision = res.body.decision
      /\ input.relevance_score = res.body.relevance_score
      /\ input.learning_value_score = res.body.learning_value_score
      /\ input.concept_count = Fin(Len(res.body.concepts) * Scale)
      /\ input.retrieval_used = res.body.retrieval_used
      /\ input.retrieved_count = Fin(res.body.retrieved_count * Scale)

\* C24 witness: a completed request with retrieval used and two related
\* items, whose record was handed to telemetry.
C24_Witness ==
  /\ pc = "done" /\ res.status = 200
  /\ Len(telemetry) = 1
  /\ res.body.retrieval_used
  /\ res.body.retrieved_count = 2
  /\ telemetry[1].input.retrieved_count = Fin(2 * Scale)
  /\ telemetry[1].input.relevance_score = Fin(90)

\* C24 second witness: the model's reply carried a score above 1 and a
\* non-numeric one; the response and the record both carry the clamped values.
C24_WitnessClamped ==
  /\ pc = "done" /\ res.status = 200
  /\ Len(telemetry) = 1
  /\ env.parsed.relevance_score = Json("num", 150)
  /\ env.parsed.learning_value_score = Json("str", 0)
  /\ res.body.relevance_score = Fin(100)
  /\ telemetry[1].input.relevance_score = Fin(100)
  /\ telemetry[1].input.learning_value_score = Fin(0)

C25_WitnessForwarded ==
  /\ relay.step = "done"
  /\ relay.endpoint = "opik-log"
  /\ relay.req.body.event_type = "user_feedback"
  /\ relay.res.status = 200
  /\ Len(relay.sent) = 1
  /\ relay.sent[1].event_type = "user_feedback"

\* One /api/analyze request hands at most one trace to Opik.
ClaimOneTracePerAnalysis == Len(telemetry) <= 1

\* A request that passed the four checks and, on grade-recall, whose grader
\* call succeeded: a request that is valid but for telemetry.
ClaimOtherwiseValid ==
  /\ relay.step = "done"
  /\ ClaimRelayOutcome = 0
  /\ relay.endpoint = "grade-recall" => relay.env.llm = "ok"

C26_WitnessRelay500 ==
  /\ ClaimOtherwiseValid
  /\ relay.endpoint = "opik-log"
  /\ relay.req.body.event_type = "user_feedback"
  /\ relay.env.opik = "no_key"
  /\ relay.res.status = 500

\* C27: whenever /api/grade-recall answers 200 (the grader's reply parsed as
\* JSON, whatever its score field holds), the returned score is a number in
\* [0, 1] and correct is true exactly when that score is at least 0.6.
C27_GradeScoreInRange ==
  (relay.step = "done" /\ relay.endpoint = "grade-recall" /\ relay.res.status = 200) =>
    /\ relay.body.score.k = "fin"
    /\ relay.body.score.v >= 0
    /\ relay.body.score.v <= GradeScale
    /\ relay.body.correct = (relay.body.score.v >= 600)

\* The part of C27 that holds: a finite score is returned clamped to [0, 1],
\* and correct is decided on the score before it is rounded to two decimals.
ClaimGradeFiniteScores ==
  (relay.step = "done" /\ relay.endpoint = "grade-recall" /\ relay.res.status = 200
   /\ relay.env.grade.t \in {"null", "bool", "num", "numstr"}) =>
    /\ relay.body.score.k = "fin"
    /\ relay.body.score.v >= 0
    /\ relay.body.score.v <= GradeScale
    /\ relay.body.correct =
         ((IF relay.env.grade.t = "null" THEN 0
           ELSE IF relay.env.grade.t = "bool" THEN GradeScale
           ELSE relay.env.grade.v) >= 600)

\* A reply without a score field is answered 200 with score null.
ClaimGradeMissingScore ==
  /\ relay.step = "done" /\ relay.endpoint = "grade-recall"
  /\ relay.res.status = 200
  /\ relay.env.grade.t = "undefined"
  /\ relay.body.score.k = "null"
  /\ ~relay.body.correct

\* A score of 0.597 is answered as 0.6 with correct = false.
ClaimGradeRoundedUp ==
  /\ relay.step = "done" /\ relay.endpoint = "grade-recall"
  /\ relay.res.status = 200
  /\ relay.env.grade = Json("num", 597)
  /\ relay.body.score = Fin(600)
  /\ ~relay.body.correct

(***************************************************************************)
(* utils/opikLogger.ts: getOpikClient under concurrent logToOpik calls     *)
(* (specification SpecClient).  JavaScript runs one callback at a time: a  *)
(* step is the code between two awaits.  opikClientPromise is 0 for null,  *)
(* else the index in promises of the promise it refers to.                 *)
(***************************************************************************)
MaxCallers == 3

Callers == 1..MaxCallers

\* How the dynamic import and the constructor behave in this process.
SdkOutcomes == {"ok", "no_export", "import_fails", "ctor_throws"}

NoCaller == [pc |-> "idle", promise |-> 0, seen |-> "none"]

InitClient ==
  /\ HandlerOff
  /\ fn = FnOff
  /\ relay = RelayOff
  /\ \E k \in BOOLEAN, s \in SdkOutcomes :
       client = [step |-> "run", apiKey |-> k, sdk |-> s, opikClientPromise |-> 0,
                 promises |-> <<>>, constructed |-> 0,
                 callers |-> [c \in Callers |-> NoCaller]]

\* The promise of the async initializer when it reaches its first await or
\* returns: without an API key it returns null at once (line 96), otherwise it
\* stops at await import('opik') (line 100).
getOpikClient_initializer(apiKey) ==
  IF ~apiKey THEN [state |-> "resolved", value |-> "null"]
  ELSE [state |-> "pending", value |-> "none"]

\* A getOpikClient that memoizes the client once it is known instead of the
\* promise: a caller that arrives before the client is there, or after null,
\* starts another initialization.
GetOpikClient_MemoizesClient(c) ==
  /\ client.step = "run"
  /\ client.callers[c].pc = "idle"
  /\ LET known == /\ client.opikClientPromise # 0
                  /\ client.promises[client.opikClientPromise].value = "client"
         made == Len(client.promises) + 1
     IN IF known
        THEN client' = [client EXCEPT
               !.callers[c] = [pc |-> "awaiting", promise |-> client.opikClientPromise,
                               seen |-> "none"]]
        ELSE client' = [client EXCEPT
               !.promises = Append(client.promises,
                                   getOpikClient_initializer(client.apiKey)),
               !.opikClientPromise = made,
               !.callers[c] = [pc |-> "awaiting", promise |-> made, seen |-> "none"]]
  /\ UNCHANGED <<handlerVars, fn, relay>>

\* logToOpik calls getOpikClient (lines 236, 68-71 and 121): the memoized
\* promise is returned when there is one; otherwise the initializer is started,
\* its promise is stored before anything is awaited, and returned.
GetOpikClient(c) ==
  /\ client.step = "run"
  /\ client.callers[c].pc = "idle"
  /\ LET made == Len(client.promises) + 1 IN
     IF client.opikClientPromise # 0
     THEN client' = [client EXCEPT
            !.callers[c] = [pc |-> "awaiting", promise |-> client.opikClientPromise,
                            seen |-> "none"]]
     ELSE client' = [client EXCEPT
            !.promises = Append(client.promises,
                                getOpikClient_initializer(client.apiKey)),
            !.opikClientPromise = made,
            !.callers[c] = [pc |-> "awaiting", promise |-> made, seen |-> "none"]]
  /\ UNCHANGED <<handlerVars, fn, relay>>

\* The initializer resumes after await import('opik') (lines 98-118): the
\* client is constructed, or the export is missing, the import failed or the
\* constructor threw, and the promise resolves to null.
InitializerResumes(p) ==
  /\ client.step = "run"
  /\ p \in 1..Len(client.promises)
  /\ client.promises[p].state = "pending"
  /\ client' = [client EXCEPT
       !.promises[p] = [state |-> "resolved",
                        value |-> IF client.sdk = "ok" THEN "client" ELSE "null"],
       !.constructed = client.constructed
                       + (IF client.sdk \in {"ok", "ctor_throws"} THEN 1 ELSE 0)]
  /\ UNCHANGED <<handlerVars, fn, relay>>

\* logToOpik resumes after await getOpikClient() (lines 236-237) with the
\* value of the promise it was given.
LogToOpikResumes(c) ==
  /\ client.step = "run"
  /\ client.callers[c].pc = "awaiting"
  /\ client.promises[client.callers[c].promise].state = "resolved"
  /\ client' = [client EXCEPT
       !.callers[c].pc = "done",
       !.callers[c].seen = client.promises[client.callers[c].promise].value]
  /\ UNCHANGED <<handlerVars, fn, relay>>

NextClient ==
  \/ \E c \in Callers : GetOpikClient(c)
  \/ \E p \in 1..MaxCallers : InitializerResumes(p)
  \/ \E c \in Callers : LogToOpikResumes(c)

SpecClient == InitClient /\ [][NextClient]_vars

(***************************************************************************)
(* Claims about getOpikClient (specification SpecClient)                   *)
(***************************************************************************)
\* C28: for any interleaving of concurrent logToOpik calls in one process the
\* initializer is started at most once and the client constructed at most
\* once; every caller is given the same promise, also while it is still
\* pending, and observes the same client or the same null; the stored
\* reference is never replaced, so a null result is never retried.
C28_ClientMemoizedOnce ==
  client.step = "run" =>
    /\ Len(client.promises) <= 1
    /\ client.constructed <= 1
    /\ client.opikClientPromise = Len(client.promises)
    /\ \A c \in Callers :
         /\ client.callers[c].pc # "idle" => client.callers[c].promise = 1
         /\ client.callers[c].pc = "done" =>
              client.callers[c].seen = client.promises[1].value
    /\ \A c, d \in Callers :
         (client.callers[c].pc = "done" /\ client.callers[d].pc = "done")
           => client.callers[c].seen = client.callers[d].seen

\* C28 witness: two callers arrived while the initialization was pending, it
\* yielded null although an API key is set, both saw null, and a caller that
\* arrived afterwards was given the same promise: nothing was retried.
C28_Witness ==
  /\ client.step = "run"
  /\ client.apiKey
  /\ client.sdk = "import_fails"
  /\ Len(client.promises) = 1
  /\ client.promises[1] = [state |-> "resolved", value |-> "null"]
  /\ client.callers[1].pc = "done" /\ client.callers[1].seen = "null"
  /\ client.callers[2].pc = "done" /\ client.callers[2].seen = "null"
  /\ client.callers[3].pc = "awaiting" /\ client.callers[3].promise = 1

\* C28 second witness: all callers wait on the one pending promise.
C28_WitnessPending ==
  /\ client.step = "run"
  /\ Len(client.promises) = 1
  /\ client.promises[1].state = "pending"
  /\ \A c \in Callers : client.callers[c].pc = "awaiting"

(***************************************************************************)
(* Claims about the consistency of reason code and decision                *)
(***************************************************************************)
ClaimReasonConsistent(decision, code) ==
  /\ code \in {"high_scores", "retrieval_bridge_used"} => decision = "triggered"
  /\ code \in {"low_scores", "policy_blocked"} => decision = "ignored"

C29_WitnessResolved ==
  /\ ClaimSentDecision
  /\ fn.data.system_decision = "ignored"
  /\ fn.data.decision_reason_code = "undefined"
  /\ fn.data.relevance_score = Fin(100)
  /\ fn.data.learning_value_score = Fin(100)
  /\ fn.data.concept_count = Fin(6 * Scale)
  /\ fn.sent.traces[1].input.decision_reason_code = "policy_blocked"

\* The logToOpik part of C29: the decision input logToOpik builds is
\* consistent for every decision, scores, concept count, policy and
\* retrieval flag (specification SpecFn).
ClaimLogToOpikConsistent ==
  fn.step = "logged" =>
    ClaimReasonConsistent(fn.input.system_decision, fn.input.decision_reason_code)

\* The same for the records the /api/analyze flow hands to telemetry
\* (specification Spec).
ClaimAnalyzeConsistent ==
  \A i \in 1..Len(telemetry) :
    ClaimReasonConsistent(telemetry[i].input.system_decision,
                          telemetry[i].input.decision_reason_code)

(***************************************************************************)
(* Claims about retrieval (specification Spec)                             *)
(***************************************************************************)
\* The distinct concepts (compared as the code compares them: trimmed,
\* case-insensitive) of a list of concept strings.
ClaimConceptKeys(concepts) == {concepts[i].key : i \in 1..Len(concepts)} \ {0}

\* The number of distinct concepts a related item shares with the new content.
ClaimShared(item, newConcepts) ==
  Cardinality(ClaimConceptKeys(item.overlap_concepts) \cap ClaimConceptKeys(newConcepts))

ClaimBridgeCount(questions) ==
  Cardinality({i \in 1..Len(questions) : questions[i].src = "bridge"})

\* The parts of C30 on retrieval_used, the counts and the questions.
ClaimRetrievalShape ==
  res.status = 200 =>
    /\ res.body.retrieval_used =>
         /\ res.body.decision = "triggered"
         /\ "generateBridgeQuestion" \in calls
         /\ env.bridge = "question"
         /\ res.body.retrieved_count = Len(res.body.related_items)
         /\ res.body.retrieved_count >= 1
         /\ res.body.retrieved_count <= 2
         /\ ClaimBridgeCount(res.body.recall_questions) = 1
    /\ ~res.body.retrieval_used =>
         /\ res.body.retrieved_count = 0
         /\ res.body.related_items = <<>>
         /\ res.body.recall_questions = analysis.recall_questions

\* C30: in every /api/analyze response, retrieval_used is true only if the
\* decision is triggered and a bridge question was generated; with
\* retrieval_used, 1 <= retrieved_count = |related_items| <= 2, every related
\* item shares at least 2 concepts with the new content and at least 25% of
\* the new content's distinct concepts, and exactly one returned question is
\* the bridge question; without it, retrieved_count is 0, related_items is
\* empty and the questions are those of the analysis.
C30_RetrievalInvariants ==
  /\ ClaimRetrievalShape
  /\ (res.status = 200 /\ res.body.retrieval_used) =>
       \A i \in 1..Len(res.body.related_items) :
         /\ ClaimShared(res.body.related_items[i], res.body.concepts) >= 2
         /\ 4 * ClaimShared(res.body.related_items[i], res.body.concepts)
              >= Cardinality(ClaimConceptKeys(res.body.concepts))

\* A related item whose two overlap concepts are two spellings of one concept
\* of the new content.
ClaimRelatedBySpelling ==
  /\ res.status = 200
  /\ res.body.retrieval_used
  /\ Len(res.body.related_items) = 1
  /\ res.body.related_items[1].overlap_score = 2
  /\ res.body.related_items[1].overlap_concepts = <<Concept(1, 0), Concept(1, 1)>>
  /\ ClaimShared(res.body.related_items[1], res.body.concepts) = 1

\* What holds of the code's counting: every related item has at least 2
\* overlap strings, and at least a quarter as many as the new content has
\* distinct concepts.
ClaimOverlapBySpelling ==
  (res.status = 200 /\ res.body.retrieval_used) =>
    \A i \in 1..Len(res.body.related_items) :
      /\ res.body.related_items[i].overlap_score
           = Len(res.body.related_items[i].overlap_concepts)
      /\ res.body.related_items[i].overlap_score >= 2
      /\ 4 * res.body.related_items[i].overlap_score
           >= Cardinality(ClaimConceptKeys(res.body.concepts))

====
